---- MODULE Spec2Model ----
(***************************************************************************)
(* Model of the Florida corporate-registry "corp line" parser              *)
(* (florida-renew-local/api/data.py): the normalizer, the tokenizer, the   *)
(* anchor classifiers, the address extractor, parse_corp_line and the      *)
(* search ranking; and of the flat lookup by_doc of api.py.                *)
(*                                                                         *)
(* A Python str is modelled as a sequence of one-character strings, so     *)
(* that the regular expressions of the source can be evaluated character   *)
(* by character.  None is the record Null; a dict is a record.             *)
(***************************************************************************)
EXTENDS Integers, Sequences, FiniteSets, TLC

VARIABLES
    pc,               \* position inside parse_corp_line / search_entities
    doc,              \* argument doc
    corp_line,        \* argument corp_line
    raw,              \* local raw
    doc_clean,        \* local doc_clean
    entity_name, entity_type_code,
    tokens,           \* local tokens
    principal, mailing, idx,
    formation_date, fei_ein, annual_report_year, report_dates, j,
    registered_agent,
    officers, i,
    record,           \* the returned dict (Null until the return statement)
    raised,           \* TRUE once a statement of the function has raised
    trail,            \* what each extractor received and handed on (observer)
    corpdata,         \* the rows of the view corpdata
    q, limit,         \* arguments q and limit of search_entities
    rows,             \* local rows
    out,              \* local out
    results,          \* the returned list (Null until the return statement)
    corp,             \* the rows of the table corp (api.py)
    path_doc,         \* argument doc of by_doc
    con,              \* the connection of by_doc: "none", "open", "closed"
    found_row,        \* local row of by_doc (Null: fetchone() gave None)
    data,             \* local data of by_doc
    response,         \* what by_doc returned (Null: nothing)
    error             \* the exception by_doc let through (Null: none)

\* The variables of parse_corp_line and those of search_entities
pvars == <<doc, corp_line, raw, doc_clean, entity_name, entity_type_code,
           tokens, principal, mailing, idx, formation_date, fei_ein,
           annual_report_year, report_dates, j, registered_agent, officers, i,
           record, raised, trail>>
svars == <<corpdata, q, limit, rows, out, results>>
\* The variables of by_doc
dvars == <<corp, path_doc, con, found_row, data, response, error>>
vars == <<pc, pvars, svars, dvars>>

----------------------------------------------------------------------------
(* Characters *)

Null == [null |-> TRUE]

DigitSeq == <<"0","1","2","3","4","5","6","7","8","9">>
UpperSeq == <<"A","B","C","D","E","F","G","H","I","J","K","L","M",
              "N","O","P","Q","R","S","T","U","V","W","X","Y","Z">>
LowerSeq == <<"a","b","c","d","e","f","g","h","i","j","k","l","m",
              "n","o","p","q","r","s","t","u","v","w","x","y","z">>

Range(f) == {f[x] : x \in DOMAIN f}

Digits == Range(DigitSeq)
Uppers == Range(UpperSeq)
Lowers == Range(LowerSeq)
\* str.strip() and \s: the whitespace characters of the model's alphabet
Whitespace == {" ", "\t"}

IsDigit(c) == c \in Digits
IsUpper(c) == c \in Uppers
\* \w of a str pattern, over ASCII
IsWord(c) == c \in Digits \cup Uppers \cup Lowers \cup {"_"}
IsSpace(c) == c \in Whitespace

\* The character at 1-based position k of s, "" when there is none.
At(s, k) == IF k \in 1..Len(s) THEN s[k] ELSE ""

\* \b at the gap between s[g] and s[g+1] (g = 0 is the start of s).
WordB(s, g) == IsWord(At(s, g)) # IsWord(At(s, g + 1))

\* \d{n} starting at position k
DigitsAt(s, k, n) == \A d \in 0..(n - 1) : IsDigit(At(s, k + d))

\* the literal lit starting at position k
LitAt(s, k, lit) == \A d \in 1..Len(lit) : At(s, k + d - 1) = lit[d]

IndexIn(seq, c) == CHOOSE k \in DOMAIN seq : seq[k] = c
UpperChar(c) == IF c \in Lowers THEN UpperSeq[IndexIn(LowerSeq, c)] ELSE c
LowerChar(c) == IF c \in Uppers THEN LowerSeq[IndexIn(UpperSeq, c)] ELSE c
\* str.upper() / str.lower()
StrUpper(s) == [k \in 1..Len(s) |-> UpperChar(s[k])]
StrLower(s) == [k \in 1..Len(s) |-> LowerChar(s[k])]

Min(a, b) == IF a <= b THEN a ELSE b
Max(a, b) == IF a >= b THEN a ELSE b
SetMin(S) == CHOOSE x \in S : \A y \in S : x <= y
SetMax(S) == CHOOSE x \in S : \A y \in S : x >= y

\* The positions 1..Len(s) in order, and those of them that satisfy a test
Positions(s) == [k \in 1..Len(s) |-> k]

\* The positions of s that hold no whitespace
Inked(s) == {k \in 1..Len(s) : ~IsSpace(s[k])}
\* str.lstrip(), str.rstrip(), str.strip()
LStrip(s) == IF Inked(s) = {} THEN <<>> ELSE SubSeq(s, SetMin(Inked(s)), Len(s))
RStrip(s) == IF Inked(s) = {} THEN <<>> ELSE SubSeq(s, 1, SetMax(Inked(s)))
Strip(s) == RStrip(LStrip(s))

\* str.startswith
StartsWith(s, p) == Len(p) <= Len(s) /\ SubSeq(s, 1, Len(p)) = p

\* A _clean that forgets to strip
CleanNothing(s) == s

\* _clean(s): (s or "").strip()
_clean(s) == Strip(s)

----------------------------------------------------------------------------
(* _normalize_ws *)

\* html.unescape, for the named reference the source comment gives (&amp;,
\* with the html5 table's entries "amp;" and "amp").  A reference name is a
\* run of characters other than whitespace and < & # ;  followed by an
\* optional ";"; a name that only starts with "amp" has that prefix replaced.
\* A reference cannot overlap another one ("&" is no character of the name),
\* so the result keeps every character that is not the "amp" or "amp;" of
\* a reference.
AMP == <<"&","a","m","p">>
RefAt(s, k) == s[k] = "&" /\ LitAt(s, k, AMP)
RefLen(s, k) == IF At(s, k + 4) = ";" THEN 5 ELSE 4
InRefName(s, k) ==
    \E b \in 1..4 : k - b >= 1 /\ RefAt(s, k - b) /\ b < RefLen(s, k - b)
html_unescape(s) ==
    LET kept == SelectSeq(Positions(s), LAMBDA k : ~InRefName(s, k))
    IN  [m \in 1..Len(kept) |-> s[kept[m]]]

\* The lookahead alternatives of the ".FT" rule
DotAlts == << <<"F","T">>, <<"S","T">>, <<"N">>, <<"S">>, <<"E">>, <<"W">> >>

\* Number of characters the pattern of substitution rule r consumes when it
\* matches at position k of s (0: no match at k).
MatchLen(r, s, k) ==
    CASE r = 1 ->   \* \bP(?=\d)
           IF s[k] = "P" /\ WordB(s, k - 1) /\ IsDigit(At(s, k + 1)) THEN 1 ELSE 0
      [] r = 2 ->   \* \.(?=(FT|ST|N|S|E|W)\b)
           IF s[k] = "." /\ \E a \in DOMAIN DotAlts :
                  LitAt(s, k + 1, DotAlts[a]) /\ WordB(s, k + Len(DotAlts[a]))
           THEN 1 ELSE 0
      [] r = 3 ->   \* \b([A-Z])(\d{8})\b
           IF WordB(s, k - 1) /\ IsUpper(s[k]) /\ DigitsAt(s, k + 1, 8)
              /\ WordB(s, k + 8) THEN 9 ELSE 0
      [] r = 4 ->   \* \b(\d{8})FL(\d{4})\b
           IF WordB(s, k - 1) /\ DigitsAt(s, k, 8) /\ LitAt(s, k + 8, <<"F","L">>)
              /\ DigitsAt(s, k + 10, 4) /\ WordB(s, k + 13) THEN 14 ELSE 0
      [] r = 5 ->   \* \bUS(?=\d)
           IF WordB(s, k - 1) /\ LitAt(s, k, <<"U","S">>) /\ IsDigit(At(s, k + 2))
           THEN 2 ELSE 0
      [] r = 6 ->   \* \b([A-Z]{2})(\d{5})(\b)
           IF WordB(s, k - 1) /\ IsUpper(s[k]) /\ IsUpper(At(s, k + 1))
              /\ DigitsAt(s, k + 2, 5) /\ WordB(s, k + 6) THEN 7 ELSE 0
      [] r = 7 ->   \* \b(\d{8})(\d{2}-\d{7})\b
           IF WordB(s, k - 1) /\ DigitsAt(s, k, 10) /\ At(s, k + 10) = "-"
              /\ DigitsAt(s, k + 11, 7) /\ WordB(s, k + 17) THEN 18 ELSE 0
      [] r = 8 ->   \* \b(\d{8})(\d{9})\b
           IF WordB(s, k - 1) /\ DigitsAt(s, k, 17) /\ WordB(s, k + 16)
           THEN 17 ELSE 0
      [] r = 9 ->   \* \b(\d{8})(\d{4})\b
           IF WordB(s, k - 1) /\ DigitsAt(s, k, 12) /\ WordB(s, k + 11)
           THEN 12 ELSE 0
      [] r = 10 ->  \* \b(\d{8})([A-Z])
           IF WordB(s, k - 1) /\ DigitsAt(s, k, 8) /\ IsUpper(At(s, k + 8))
           THEN 9 ELSE 0
      [] r = 11 ->  \* ,(?=\S)
           IF s[k] = "," /\ At(s, k + 1) # "" /\ ~IsSpace(At(s, k + 1))
           THEN 1 ELSE 0

\* Every replacement re-emits the match with one space inserted after its
\* first Cut(r) characters.
Cut(r) == CASE r \in {1, 2, 3, 11} -> 1
            [] r \in {5, 6} -> 2
            [] r \in {4, 7, 8, 9, 10} -> 8

\* re.sub finds the leftmost match, then the leftmost match that starts at
\* or after the end of the previous one: the match starts among cands from
\* position k on.
RECURSIVE MatchStarts(_,_,_,_)
MatchStarts(r, s, cands, k) ==
    LET rest == {c \in cands : c >= k}
    IN  IF rest = {} THEN {}
        ELSE LET m == SetMin(rest)
             IN  {m} \cup MatchStarts(r, s, cands, m + MatchLen(r, s, m))

\* s with a space inserted after each position of the set after
InsertSpaces(s, after) ==
    LET wide == [k \in 1..(2 * Len(s)) |->
                    IF k % 2 = 1 THEN s[(k + 1) \div 2]
                    ELSE IF (k \div 2) \in after THEN " " ELSE ""]
    IN  SelectSeq(wide, LAMBDA c : c # "")

\* re.sub for rule r
ReSub(r, s) ==
    LET cands == {k \in 1..Len(s) : MatchLen(r, s, k) > 0}
        starts == MatchStarts(r, s, cands, 1)
    IN  IF starts = {} THEN s
        ELSE InsertSpaces(s, {m + Cut(r) - 1 : m \in starts})

\* re.sub(r"\s+", " ", s): of a run of whitespace only the last character
\* is kept, as a space
Collapse(s) ==
    LET kept == SelectSeq(Positions(s),
                          LAMBDA k : ~(IsSpace(s[k]) /\ IsSpace(At(s, k + 1))))
    IN  [m \in 1..Len(kept) |-> IF IsSpace(s[kept[m]]) THEN " " ELSE s[kept[m]]]

\* The eleven substitutions in source order, applied to s from rule r on.
RECURSIVE ApplyRules(_,_)
ApplyRules(r, s) == IF r > 11 THEN s ELSE ApplyRules(r + 1, ReSub(r, s))

_normalize_ws(s) == Strip(Collapse(ApplyRules(1, html_unescape(Strip(s)))))

----------------------------------------------------------------------------
(* CONFIG: the fixed vocabularies *)

US_STATES == {
    <<"A","L">>, <<"A","K">>, <<"A","Z">>, <<"A","R">>, <<"C","A">>,
    <<"C","O">>, <<"C","T">>, <<"D","E">>, <<"F","L">>, <<"G","A">>,
    <<"H","I">>, <<"I","D">>, <<"I","L">>, <<"I","N">>, <<"I","A">>,
    <<"K","S">>, <<"K","Y">>, <<"L","A">>, <<"M","E">>, <<"M","D">>,
    <<"M","A">>, <<"M","I">>, <<"M","N">>, <<"M","S">>, <<"M","O">>,
    <<"M","T">>, <<"N","E">>, <<"N","V">>, <<"N","H">>, <<"N","J">>,
    <<"N","M">>, <<"N","Y">>, <<"N","C">>, <<"N","D">>, <<"O","H">>,
    <<"O","K">>, <<"O","R">>, <<"P","A">>, <<"R","I">>, <<"S","C">>,
    <<"S","D">>, <<"T","N">>, <<"T","X">>, <<"U","T">>, <<"V","T">>,
    <<"V","A">>, <<"W","A">>, <<"W","V">>, <<"W","I">>, <<"W","Y">>,
    <<"D","C">> }

TYPE_TOKENS == {
    <<"I","F","L","A","L">>, <<"A","F","L","A","L">>,
    <<"I","D","O","M","N","P">>, <<"I","D","O","M","N">>,
    <<"I","D","O","M","P">>, <<"I","D","O","M">>, <<"D","O","M","N","P">>,
    <<"D","O","M","P">> }

ROLE_TOKENS == {
    <<"M","G","R">>, <<"A","M","B","R">>, <<"M","E","M","B","E","R">>,
    <<"P","R","E","S">>, <<"V","P">>, <<"V","P","P">>, <<"T","R","E","A">>,
    <<"S","E","C">>, <<"D","I","R">>, <<"C","E","O">>, <<"C","F","O">>,
    <<"C","O","O">>, <<"M","A","N","A","G","E","R">>,
    <<"A","U","T","H","O","R","I","Z","E","D">>,
    <<"T","R","U","S","T","E","E">>, <<"C","H","A","I","R">>, <<"P">>,
    <<"S">>, <<"D">> }

ADDR2_KEYWORDS == {
    <<"S","U","I","T","E">>, <<"S","T","E">>, <<"U","N","I","T">>,
    <<"A","P","T">>, <<"#">>, <<"F","L","O","O","R">>, <<"F","L">>,
    <<"B","L","D","G">>, <<"B","U","I","L","D","I","N","G">>, <<"R","M">>,
    <<"R","O","O","M">> }

STREET_SUFFIX == {
    <<"A","V","E">>, <<"A","V","E",".">>, <<"A","V","E","N","U","E">>,
    <<"B","L","V","D">>, <<"B","L","V","D",".">>,
    <<"B","O","U","L","E","V","A","R","D">>, <<"R","D">>, <<"R","D",".">>,
    <<"R","O","A","D">>, <<"S","T">>, <<"S","T",".">>,
    <<"S","T","R","E","E","T">>, <<"D","R">>, <<"D","R",".">>,
    <<"D","R","I","V","E">>, <<"C","T">>, <<"C","T",".">>,
    <<"C","O","U","R","T">>, <<"L","N">>, <<"L","N",".">>,
    <<"L","A","N","E">>, <<"W","A","Y">>, <<"H","W","Y">>,
    <<"H","W","Y",".">>, <<"P","K","W","Y">>, <<"P","K","W","Y",".">>,
    <<"T","E","R">>, <<"T","E","R",".">>, <<"C","I","R">>, <<"C","I","R",".">> }

BUSINESS_WORDS == {
    <<"L","L","C">>, <<"I","N","C">>, <<"I","N","C",".">>,
    <<"C","O","R","P">>, <<"C","O","R","P","O","R","A","T","I","O","N">>,
    <<"C","O","M","P","A","N","Y">>, <<"G","R","O","U","P">>, <<"L","A","W">> }

----------------------------------------------------------------------------
(* Token helpers *)

\* Cursors are 0-based as in the source.  Tok(t, k) is t[k].
Tok(t, k) == t[k + 1]
\* t[a:b], with Python's clamping
Slice(t, a, b) == SubSeq(t, Max(a, 0) + 1, Min(b, Len(t)))

\* " ".join(ts[lo..hi]), by halves
RECURSIVE JoinRange(_,_,_)
JoinRange(ts, lo, hi) ==
    IF lo = hi THEN ts[lo]
    ELSE LET mid == (lo + hi) \div 2
         IN  JoinRange(ts, lo, mid) \o <<" ">> \o JoinRange(ts, mid + 1, hi)
\* " ".join(ts)
Join(ts) == IF ts = <<>> THEN <<>> ELSE JoinRange(ts, 1, Len(ts))

\* s.split(" "): the pieces between consecutive spaces
Split(s) ==
    LET spaces == SelectSeq(Positions(s), LAMBDA k : s[k] = " ")
        cuts == <<0>> \o spaces \o <<Len(s) + 1>>
    IN  [m \in 1..(Len(spaces) + 1) |-> SubSeq(s, cuts[m] + 1, cuts[m + 1] - 1)]

\* _tokenize(s)
_tokenize(s) == IF s # <<>> THEN Split(_normalize_ws(s)) ELSE <<>>

\* t.strip(",")
StripCommas(t) ==
    LET other == {k \in 1..Len(t) : t[k] # ","}
    IN  IF other = {} THEN <<>> ELSE SubSeq(t, SetMin(other), SetMax(other))

AllDigits(t) == \A k \in DOMAIN t : IsDigit(t[k])
AllUpper(t) == \A k \in DOMAIN t : IsUpper(t[k])

\* re.fullmatch(r"\d{5}(-\d{4})?", t)
_looks_like_zip(t) ==
    \/ Len(t) = 5 /\ AllDigits(t)
    \/ Len(t) = 10 /\ DigitsAt(t, 1, 5) /\ t[6] = "-" /\ DigitsAt(t, 7, 4)
\* re.fullmatch(r"\d{8}", t)
_looks_like_date(t) == Len(t) = 8 /\ AllDigits(t)
\* re.fullmatch(r"\d{2}-\d{7}", t)
_looks_like_ein(t) ==
    Len(t) = 10 /\ DigitsAt(t, 1, 2) /\ t[3] = "-" /\ DigitsAt(t, 4, 7)
\* re.fullmatch(r"\d{9}", t)
_looks_like_fei9(t) == Len(t) = 9 /\ AllDigits(t)
\* re.fullmatch(r"\d{4}", t)
_looks_like_year(t) == Len(t) = 4 /\ AllDigits(t)
\* re.fullmatch(r"\d{1,6}", t)
_looks_like_street_number(t) == Len(t) \in 1..6 /\ AllDigits(t)
\* re.fullmatch(r"C\d{1,6}", t)
IsCompactCode(t) ==
    Len(t) \in 2..7 /\ t[1] = "C" /\ AllDigits(Tail(t))
\* re.fullmatch(r"FL(\d{4})", t)
IsFLYear(t) == Len(t) = 6 /\ t[1] = "F" /\ t[2] = "L" /\ DigitsAt(t, 3, 4)
\* re.fullmatch(r"[A-Z]", t)
IsFlag(t) == Len(t) = 1 /\ IsUpper(t[1])

\* _normalize_person_token(tok): PHALPERIN => HALPERIN
_normalize_person_token(tok) ==
    IF Len(tok) >= 4 /\ tok[1] = "P" /\ AllUpper(Tail(tok)) THEN Tail(tok) ELSE tok

----------------------------------------------------------------------------
(* Address extractor *)

\* The first index k >= 1 (0-based) of upper at which the street splits, or
\* -1 for None.
SplitIdx(upper) ==
    LET hits == {k \in 1..(Len(upper) - 1) :
                    \/ Tok(upper, k) \in ADDR2_KEYWORDS
                    \/ k + 1 < Len(upper)
                       /\ Tok(upper, k + 1) \in {<<"F","L","O","O","R">>, <<"F","L">>}}
    IN  IF hits = {} THEN -1 ELSE SetMin(hits)

\* The two lines of the street, split at index split_idx (-1: no split)
SplitAt(addr_tokens, split_idx) ==
    IF split_idx = -1
    THEN <<Strip(Join(addr_tokens)), Null>>
    ELSE <<Strip(Join(Slice(addr_tokens, 0, split_idx))),
           [s |-> Strip(Join(Slice(addr_tokens, split_idx, Len(addr_tokens))))]>>

\* _split_addr(addr_tokens): <<address1, address2>>, address2 Null for None
_split_addr(addr_tokens) ==
    IF addr_tokens = <<>> THEN <<<<>>, Null>>
    ELSE SplitAt(addr_tokens,
                 SplitIdx([k \in 1..Len(addr_tokens) |->
                              StripCommas(StrUpper(addr_tokens[k]))]))

\* A scan end one past the last index with a successor
ScanEndPastEnd(n, start, window) == Min(n, start + window)
\* A scan end that ignores the window
ScanEndNoWindow(n, start, window) == n - 1

\* The exclusive upper end of the scan of _find_state_zip
ScanEnd(n, start, window) == Min(n - 1, start + window)

\* tokens[k] for a subscript that may lie outside the list; OutOfRange
\* stands for the IndexError.
OutOfRange == <<"IndexError">>
Sub(t, k) == IF k \in 0..(Len(t) - 1) THEN Tok(t, k) ELSE OutOfRange

\* An anchor test that forgets the zip
StateOnlyAt(t, k) == Sub(t, k) \in US_STATES

\* The test of _find_state_zip at index k
StateZipAt(t, k) == Sub(t, k) \in US_STATES /\ _looks_like_zip(Sub(t, k + 1))

\* _find_state_zip(tokens, start, window): the index, or -1 for None
_find_state_zip(t, start, window) ==
    LET hits == {k \in start..(ScanEnd(Len(t), start, window) - 1) :
                    StateZipAt(t, k)}
    IN  IF hits = {} THEN -1
        ELSE SetMin(hits)

\* The subscripts _find_state_zip evaluates when its scan ends at index
\* last: tokens[k] for every k scanned, tokens[k+1] where tokens[k] is a
\* state code.
ReadsUpTo(t, start, last) ==
    (start..last) \cup {k + 1 : k \in {h \in start..last : Sub(t, h) \in US_STATES}}
LastScanned(t, start, window, hit) ==
    IF hit = -1 THEN ScanEnd(Len(t), start, window) - 1 ELSE hit
FindReads(t, start, window) ==
    ReadsUpTo(t, start,
              LastScanned(t, start, window, _find_state_zip(t, start, window)))

\* An IndexError is raised by a subscript outside the list.
Raises(t, reads) == \E k \in reads : k < 0 \/ k >= Len(t)

HasDigit(t) == \E k \in DOMAIN t : IsDigit(t[k])

\* is_city_token(t)
is_city_token(t) ==
    LET tu == StripCommas(StrUpper(t))
    IN  tu \notin ADDR2_KEYWORDS /\ tu \notin STREET_SUFFIX /\ ~HasDigit(t)

\* The city walk: the number of trailing tokens of pre claimed as city
RECURSIVE CityCount(_,_,_)
CityCount(pre, k, got) ==
    IF k >= 0 /\ got < 3 /\ is_city_token(Tok(pre, k))
    THEN CityCount(pre, k - 1, got + 1)
    ELSE got

Window == 140

US_TOKEN == <<"U","S">>

\* The dict and the next index, for the anchor at state_idx: pre is
\* tokens[start:state_idx], nc the number of its trailing tokens claimed as
\* city, sp the split street, country whether a country token follows.
AddressOf(t, state_idx, pre, nc, sp, country) ==
    [addr |-> [address1 |-> sp[1],
               address2 |-> IF sp[2] # Null /\ sp[2].s # <<>> THEN sp[2] ELSE Null,
               city |-> Strip(Join([k \in 1..nc |->
                                       StripCommas(pre[Len(pre) - nc + k])])),
               state |-> Tok(t, state_idx),
               zip |-> Tok(t, state_idx + 1),
               country |-> IF country THEN [s |-> US_TOKEN] ELSE Null],
     next |-> IF country THEN state_idx + 3 ELSE state_idx + 2]

\* tokens[next_i] in {"US", "USA"}
HasCountry(t, next_i) ==
    next_i < Len(t) /\ Tok(t, next_i) \in {US_TOKEN, <<"U","S","A">>}

\* addr_tokens = pre[:k+1] if city_parts else pre, split
StreetOf(pre, nc) == _split_addr(Slice(pre, 0, Len(pre) - nc))

AddressCity(t, state_idx, pre, nc) ==
    AddressOf(t, state_idx, pre, nc, StreetOf(pre, nc),
              HasCountry(t, state_idx + 2))

AddressAround(t, state_idx, pre) ==
    AddressCity(t, state_idx, pre, CityCount(pre, Len(pre) - 1, 0))

AddressAt(t, start, state_idx) ==
    IF state_idx = -1 THEN [addr |-> Null, next |-> start]
    ELSE AddressAround(t, state_idx, Slice(t, start, state_idx))

\* _parse_address(tokens, start): [addr, next]; addr Null for None
_parse_address(t, start) == AddressAt(t, start, _find_state_zip(t, start, Window))

\* The subscripts _parse_address evaluates beyond those of its slices
ParseAddressRaises(t, start) == Raises(t, FindReads(t, start, Window))

----------------------------------------------------------------------------
(* Registered-agent name *)

\* re.fullmatch(r"[A-Z]{1,2}\d{6,}", tu)
IsBlob(tu) ==
    \E n \in 1..2 : Len(tu) >= n + 6 /\ AllUpper(SubSeq(tu, 1, n))
                    /\ AllDigits(SubSeq(tu, n + 1, Len(tu)))

IsJunk(t) ==
    LET tu == StrUpper(t)
    IN  \/ tu \in {<<"N">>, <<"Y">>}
        \/ _looks_like_date(t) \/ _looks_like_year(t)
        \/ _looks_like_ein(t) \/ _looks_like_fei9(t)
        \/ IsFLYear(tu)
        \/ IsBlob(tu)

Cleaned(parts) ==
    LET kept == SelectSeq(parts, LAMBDA t : ~IsJunk(t))
    IN  [k \in 1..Len(kept) |-> _normalize_person_token(kept[k])]

\* LAST FIRST [MIDDLE] -> FIRST [MIDDLE] LAST
Flip(parts) == IF Len(parts) >= 2
               THEN Strip(Join(Tail(parts) \o <<Head(parts)>>))
               ELSE Strip(parts[1])

\* " ".join(cleaned).strip() or None
JoinedOrNone(parts) ==
    LET joined == Strip(Join(parts))
    IN  IF joined = <<>> THEN Null ELSE [s |-> joined]

\* The name made of the cleaned tokens
NameOfCleaned(cleaned) ==
    IF cleaned = <<>> THEN Null
    ELSE IF \E k \in DOMAIN cleaned : StrUpper(cleaned[k]) \in BUSINESS_WORDS
         THEN JoinedOrNone(cleaned)
    ELSE [s |-> Flip(cleaned)]

\* _clean_and_flip_agent_name(parts): [s |-> name], or Null for None
_clean_and_flip_agent_name(parts) == NameOfCleaned(Cleaned(parts))

----------------------------------------------------------------------------
(* parse_corp_line: header *)

NameLen == 80

\* s with the document-number prefix removed
StripDoc(s, dc) ==
    IF dc # <<>> /\ StartsWith(StrUpper(s), StrUpper(dc))
    THEN Strip(Slice(s, Len(dc), Len(s))) ELSE s

\* re.search(rf"\b{tok}\b", s).start(), 0-based; -1 when there is no match
WordStarts(s, tok) ==
    {k \in 1..Len(s) : LitAt(s, k, tok) /\ WordB(s, k - 1)
                       /\ WordB(s, k + Len(tok) - 1)}
FirstOf(starts) == IF starts = {} THEN -1 ELSE SetMin(starts) - 1
WordStart(s, tok) == FirstOf(WordStarts(s, tok))

\* An iteration that keeps the first code found, wherever it starts
TypeStepFirstFound(m, tok, st) ==
    IF st # -1 /\ m.start = -1
    THEN [start |-> st, tok |-> tok] ELSE m

\* One iteration of the loop over TYPE_TOKENS: m is [start, tok], start = -1
\* while m_type is None; st is the start of tok's match, -1 when none.
TypeStep(m, tok, st) ==
    IF st # -1 /\ (m.start = -1 \/ st < m.start)
    THEN [start |-> st, tok |-> tok] ELSE m

\* The loop over TYPE_TOKENS, visiting them in the sequence order
RECURSIVE TypeScan(_,_,_)
TypeScan(s, order, m) ==
    IF order = <<>> THEN m
    ELSE TypeScan(s, Tail(order), TypeStep(m, Head(order), WordStart(s, Head(order))))

\* entity_name, entity_type_code and remainder for the match m
HeaderOf(s, m) ==
    IF m.start # -1
    THEN [entity_name |-> Strip(Slice(s, 0, m.start)),
          entity_type_code |-> [s |-> m.tok],
          remainder |-> LStrip(Slice(Strip(Slice(s, m.start, Len(s))),
                                     Len(m.tok), Len(s)))]
    ELSE [entity_name |-> Strip(Slice(s, 0, NameLen)),
          entity_type_code |-> Null,
          remainder |-> Strip(Slice(s, Len(Strip(Slice(s, 0, NameLen))), Len(s)))]

\* The entity name / type code split: [entity_name, entity_type_code, remainder]
SplitHeader(s, order) ==
    HeaderOf(s, TypeScan(s, order, [start |-> -1, tok |-> <<>>]))

----------------------------------------------------------------------------
(* parse_corp_line: filing facts *)

\* while j < len(tokens) and not _looks_like_date(tokens[j]): j += 1
DateScan(t, start) ==
    LET dates == {k \in start..(Len(t) - 1) : _looks_like_date(Tok(t, k))}
    IN  IF dates = {} THEN Max(start, Len(t)) ELSE SetMin(dates)

\* The formation date, the scan having stopped at k
FormationAt(t, k) ==
    IF k < Len(t) /\ _looks_like_date(Tok(t, k))
    THEN [formation_date |-> [s |-> Tok(t, k)], j |-> k + 1]
    ELSE [formation_date |-> Null, j |-> k]

\* The formation-date step: [formation_date, j]
FormationDate(t, start) == FormationAt(t, DateScan(t, start))

\* The report-dates loop: [report_dates, j]
RECURSIVE ReportDates(_,_,_)
ReportDates(t, k, acc) ==
    IF k >= Len(t) THEN [report_dates |-> acc, j |-> k]
    ELSE IF IsCompactCode(Tok(t, k)) \/ Tok(t, k) \in ROLE_TOKENS
         THEN [report_dates |-> acc, j |-> k]
    ELSE IF _looks_like_date(Tok(t, k))
         THEN ReportDates(t, k + 1, Append(acc, Tok(t, k)))
    ELSE IF _looks_like_year(Tok(t, k)) THEN ReportDates(t, k + 1, acc)
    ELSE [report_dates |-> acc, j |-> k]

\* The cursor after an optional token: k + 1 when present, else k
Skip(k, present) == IF present THEN k + 1 ELSE k

HasEin(t, k) ==
    k < Len(t) /\ (_looks_like_ein(Tok(t, k)) \/ _looks_like_fei9(Tok(t, k)))
HasFlag(t, k) == k < Len(t) /\ IsFlag(Tok(t, k))
HasDate(t, k) == k < Len(t) /\ _looks_like_date(Tok(t, k))
HasFLYear(t, k) == k < Len(t) /\ IsFLYear(Tok(t, k))

\* The facts, j0 being the cursor at the FEI/EIN test, j3 the cursor at the
\* FL-year test and rd the result of the report-dates loop
FactsOf(t, j0, j3, rd) ==
    [fei_ein |-> IF HasEin(t, j0) THEN [s |-> Tok(t, j0)] ELSE Null,
     annual_report_year |->
         IF HasFLYear(t, j3) THEN [s |-> SubSeq(Tok(t, j3), 3, 6)] ELSE Null,
     report_dates |-> rd.report_dates,
     j |-> rd.j]

FactsYear(t, j0, j3) ==
    FactsOf(t, j0, j3, ReportDates(t, Skip(j3, HasFLYear(t, j3)), <<>>))
\* swallow one extra date if present
FactsDate(t, j0, j2) == FactsYear(t, j0, Skip(j2, HasDate(t, j2)))
\* flags like N
FactsFlag(t, j0, j1) == FactsDate(t, j0, Skip(j1, HasFlag(t, j1)))
\* FEI/EIN, flag, extra date, FL year, report dates, from cursor j0
FilingFacts(t, j0) == FactsFlag(t, j0, Skip(j0, HasEin(t, j0)))

----------------------------------------------------------------------------
(* parse_corp_line: registered agent *)

MarkerWindow == 160
P_TOKEN == <<"P">>

\* The first index from lo on whose token is a compact code, -1 for None
FirstCompact(t, lo) ==
    FirstOf({k + 1 : k \in {h \in lo..(Len(t) - 1) : IsCompactCode(Tok(t, h))}})
\* The first index in lo..min(len, lo+160)-1 whose token is "P", -1 for None
FirstMarker(t, lo) ==
    FirstOf({k + 1 : k \in {h \in lo..(Min(Len(t), lo + MarkerWindow) - 1) :
                               Tok(t, h) = P_TOKEN}})

\* ra_tokens: tokens with the "C" of the compact code removed
RaTokens(t, c_idx) == [t EXCEPT ![c_idx + 1] = Tail(@)]

\* (A) the result for the compact code at c_idx, pa and err being the
\* address extraction on ra_tokens
AgentA(t, j0, c_idx, pa, err) ==
    [registered_agent |->
         [name |-> _clean_and_flip_agent_name(Slice(t, j0, c_idx)),
          address |-> pa.addr],
     j |-> pa.next, raises |-> err, fmt |-> "A"]

AgentCompact(t, j0, c_idx, ra_tokens) ==
    AgentA(t, j0, c_idx, _parse_address(ra_tokens, c_idx),
           ParseAddressRaises(ra_tokens, c_idx))

\* (B) with the cursor left past the marker when the address fails
AgentBPastMarker(t, j0, p_idx, pa, err) ==
    IF pa.addr # Null
    THEN [registered_agent |->
              [name |-> _clean_and_flip_agent_name(Slice(t, j0, p_idx)),
               address |-> pa.addr],
          j |-> pa.next, raises |-> err, fmt |-> "B"]
    ELSE [registered_agent |-> Null, j |-> p_idx + 1, raises |-> err, fmt |-> "B"]

\* (B) the result for the marker at p_idx, pa and err being the address
\* extraction from p_idx + 1
AgentB(t, j0, p_idx, pa, err) ==
    IF pa.addr # Null
    THEN [registered_agent |->
              [name |-> _clean_and_flip_agent_name(Slice(t, j0, p_idx)),
               address |-> pa.addr],
          j |-> pa.next, raises |-> err, fmt |-> "B"]
    ELSE [registered_agent |-> Null, j |-> j0, raises |-> err, fmt |-> "B"]

AgentMarker(t, j0, p_idx) ==
    IF p_idx = -1
    THEN [registered_agent |-> Null, j |-> j0, raises |-> FALSE, fmt |-> "none"]
    ELSE AgentB(t, j0, p_idx, _parse_address(t, p_idx + 1),
                ParseAddressRaises(t, p_idx + 1))

AgentAt(t, j0, c_idx) ==
    IF c_idx # -1 THEN AgentCompact(t, j0, c_idx, RaTokens(t, c_idx))
    ELSE AgentMarker(t, j0, FirstMarker(t, j0))

\* The registered-agent step: [registered_agent, j, raises, fmt]
RegisteredAgent(t, j0) == AgentAt(t, j0, FirstCompact(t, j0))

----------------------------------------------------------------------------
(* parse_corp_line: officers *)

NameCap == 14

\* A name capture that runs on over street numbers
StopsNameNoStreet(tok) ==
    \/ tok \in ROLE_TOKENS \/ IsCompactCode(tok)
    \/ _looks_like_date(tok) \/ _looks_like_year(tok)
    \/ _looks_like_ein(tok) \/ _looks_like_fei9(tok)

\* A token that ends the capture of an officer's name
StopsName(tok) ==
    \/ tok \in ROLE_TOKENS \/ IsCompactCode(tok)
    \/ _looks_like_date(tok) \/ _looks_like_year(tok)
    \/ _looks_like_ein(tok) \/ _looks_like_fei9(tok)
    \/ _looks_like_street_number(tok)

\* The name loop from cursor k with name_parts = acc: [name_parts, i]
RECURSIVE NameLoop(_,_,_)
NameLoop(t, k, acc) ==
    IF k >= Len(t) \/ StopsName(Tok(t, k)) THEN [name_parts |-> acc, i |-> k]
    ELSE IF Len(acc) + 1 >= NameCap
         THEN [name_parts |-> Append(acc, _normalize_person_token(Tok(t, k))),
               i |-> k + 1]
    ELSE NameLoop(t, k + 1, Append(acc, _normalize_person_token(Tok(t, k))))

\* Both branches of the address attempt at cursor k, pa being
\* _parse_address(tokens, k): the address is kept, and the cursor moved,
\* only when one was found
OfficerAddr(t, k, pa) ==
    IF k < Len(t) /\ _looks_like_street_number(Tok(t, k)) THEN pa
    ELSE IF pa.addr # Null THEN pa ELSE [addr |-> Null, next |-> k]

\* flip LAST FIRST [MIDDLE] -> FIRST [MIDDLE] LAST
OfficerName(name_parts) ==
    IF name_parts = <<>> THEN Null ELSE [s |-> Flip(name_parts)]

OfficerOf(t, k, i2, nl, ad, err) ==
    [officer |-> [role |-> Tok(t, k), name |-> OfficerName(nl.name_parts),
                  address |-> ad.addr],
     i |-> ad.next, raises |-> err, name_first |-> i2, name_end |-> nl.i]

OfficerNamed(t, k, i2, nl) ==
    OfficerOf(t, k, i2, nl, OfficerAddr(t, nl.i, _parse_address(t, nl.i)),
              ParseAddressRaises(t, nl.i))

OfficerFrom(t, k, i2) == OfficerNamed(t, k, i2, NameLoop(t, i2, <<>>))

\* An officer block that leaves the role token unread
OfficerBlockKeepsRole(t, k) == OfficerFrom(t, k, k)

\* One officer block, the cursor k being on its role token:
\* [officer, i, raises, name_first, name_end]
OfficerBlock(t, k) ==
    OfficerFrom(t, k, Skip(k + 1, k + 1 < Len(t) /\ Tok(t, k + 1) = P_TOKEN))

----------------------------------------------------------------------------
(* Inputs *)

\* "L23000013604"
ScenarioDoc == <<"L","2","3","0","0","0","0","1","3","6","0","4">>
\* The scenario line of the specification's testable properties
ScenarioLine == <<"L","2","3","0","0","0","0","1","3","6","0","4"," ","B",
    "H","M","S"," ","C","O","N","S","U","L","T","I","N","G"," ","L","L","C",
    " ","I","D","O","M","P"," ","2","1","6","0"," ","U","S","1"," ","S","U",
    "N","R","I","S","E"," ","B","L","V","D"," ","S","T","E"," ","2","0","0",
    " ","F","O","R","T"," ","L","A","U","D","E","R","D","A","L","E"," ","F",
    "L"," ","3","3","3","0","4"," ","U","S"," ","0","4","0","4","2","0","2",
    "3"," ","9","2","-","1","2","3","4","5","6","7"," ","N"," ","F","L","2",
    "0","2","5"," ","0","4","0","4","2","0","2","3"," ","C","1","2","3","4",
    "5","6","7"," ","5","6","7","8"," ","S","U","N","R","I","S","E"," ","B",
    "L","V","D"," ","F","O","R","T"," ","L","A","U","D","E","R","D","A","L",
    "E"," ","F","L"," ","3","3","3","0","4"," ","M","G","R"," ","P"," ","J",
    "O","H","N"," ","S","M","I","T","H"," ","2","1","6","0"," ","S","U","N",
    "R","I","S","E"," ","B","L","V","D"," ","F","O","R","T"," ","L","A","U",
    "D","E","R","D","A","L","E"," ","F","L"," ","3","3","3","0","4">>
\* Document numbers passed as doc
DocChoices == <<
    \* "L1"
    <<"L","1">>,
    \* " L1\t"
    <<" ","L","1","\t">>,
    \* ""
    <<>>
    >>
\* Lines tried with every document number
SpecialLines == <<
    \* ""
    <<>>,
    \* "L1"
    <<"L","1">>,
    \* "L1 ACME LLC IDOMP MIAMI FL 33101 MGR SMITH JOHN"
    <<"L","1"," ","A","C","M","E"," ","L","L","C"," ","I","D","O","M","P",
      " ","M","I","A","M","I"," ","F","L"," ","3","3","1","0","1"," ","M",
      "G","R"," ","S","M","I","T","H"," ","J","O","H","N">>,
    \* "l1  ACME &amp; SONS,INC.FT IDOM\t0404202392-1234567 2025 VP DOE JANE "
    <<"l","1"," "," ","A","C","M","E"," ","&","a","m","p",";"," ","S","O",
      "N","S",",","I","N","C",".","F","T"," ","I","D","O","M","\t","0","4",
      "0","4","2","0","2","3","9","2","-","1","2","3","4","5","6","7"," ",
      "2","0","2","5"," ","V","P"," ","D","O","E"," ","J","A","N","E"," ">>,
    \* "L1 ACME LLC IDOMP MIAMI FL"
    <<"L","1"," ","A","C","M","E"," ","L","L","C"," ","I","D","O","M","P",
      " ","M","I","A","M","I"," ","F","L">>,
    \* "L1 ACME LLC IDOMP 5 ELM ST DE 2025 MIAMI FL 33101 04042023 MGR"
    <<"L","1"," ","A","C","M","E"," ","L","L","C"," ","I","D","O","M","P",
      " ","5"," ","E","L","M"," ","S","T"," ","D","E"," ","2","0","2","5",
      " ","M","I","A","M","I"," ","F","L"," ","3","3","1","0","1"," ","0",
      "4","0","4","2","0","2","3"," ","M","G","R">>,
    \* "L1 ACME LLC IDOMP MIAMI FL 33101 TAMPA FL 33602 04042023 C123 MAIN ST MIAMI FL 33101 MGR"
    <<"L","1"," ","A","C","M","E"," ","L","L","C"," ","I","D","O","M","P",
      " ","M","I","A","M","I"," ","F","L"," ","3","3","1","0","1"," ","T",
      "A","M","P","A"," ","F","L"," ","3","3","6","0","2"," ","0","4","0",
      "4","2","0","2","3"," ","C","1","2","3"," ","M","A","I","N"," ","S",
      "T"," ","M","I","A","M","I"," ","F","L"," ","3","3","1","0","1"," ",
      "M","G","R">>,
    \* "L1 ACME LLC IDOMP MIAMI FL 33101 TAMPA FL 33602 04042023 N 2024 C77 MGR PETERSON JOHN A"
    <<"L","1"," ","A","C","M","E"," ","L","L","C"," ","I","D","O","M","P",
      " ","M","I","A","M","I"," ","F","L"," ","3","3","1","0","1"," ","T",
      "A","M","P","A"," ","F","L"," ","3","3","6","0","2"," ","0","4","0",
      "4","2","0","2","3"," ","N"," ","2","0","2","4"," ","C","7","7"," ",
      "M","G","R"," ","P","E","T","E","R","S","O","N"," ","J","O","H","N",
      " ","A">>,
    \* "L1 ACME LLC IDOMP 2ND FLOOR MIAMI FL 33101 STE 200 TAMPA FL 33602"
    <<"L","1"," ","A","C","M","E"," ","L","L","C"," ","I","D","O","M","P",
      " ","2","N","D"," ","F","L","O","O","R"," ","M","I","A","M","I"," ",
      "F","L"," ","3","3","1","0","1"," ","S","T","E"," ","2","0","0"," ",
      "T","A","M","P","A"," ","F","L"," ","3","3","6","0","2">>,
    \* "L1 ACME LLC IDOMP MIAMI FL 33101 TAMPA FL 33602 04042023 MGR AA BB CC DD EE FF GG HH II JJ KK LL MM NN OO QQ"
    <<"L","1"," ","A","C","M","E"," ","L","L","C"," ","I","D","O","M","P",
      " ","M","I","A","M","I"," ","F","L"," ","3","3","1","0","1"," ","T",
      "A","M","P","A"," ","F","L"," ","3","3","6","0","2"," ","0","4","0",
      "4","2","0","2","3"," ","M","G","R"," ","A","A"," ","B","B"," ","C",
      "C"," ","D","D"," ","E","E"," ","F","F"," ","G","G"," ","H","H"," ",
      "I","I"," ","J","J"," ","K","K"," ","L","L"," ","M","M"," ","N","N",
      " ","O","O"," ","Q","Q">>,
    \* "L1 ACME LLC IDOMP MIAMI FL 33101 TAMPA FL 33602 04042023 SMITH JOHN P MGR DOE JANE"
    <<"L","1"," ","A","C","M","E"," ","L","L","C"," ","I","D","O","M","P",
      " ","M","I","A","M","I"," ","F","L"," ","3","3","1","0","1"," ","T",
      "A","M","P","A"," ","F","L"," ","3","3","6","0","2"," ","0","4","0",
      "4","2","0","2","3"," ","S","M","I","T","H"," ","J","O","H","N"," ",
      "P"," ","M","G","R"," ","D","O","E"," ","J","A","N","E">>,
    \* "L1 ACME IDOM HOLDINGS IDOMP MIAMI FL 33101 MGR"
    <<"L","1"," ","A","C","M","E"," ","I","D","O","M"," ","H","O","L","D",
      "I","N","G","S"," ","I","D","O","M","P"," ","M","I","A","M","I"," ",
      "F","L"," ","3","3","1","0","1"," ","M","G","R">>,
    \* "L1 ACME LLC IDOMP MIAMI FL 33101 TAMPA FL 33602 04042023 MGR SMITH JOHN VP DOE JANE 5 ELM ST MIAMI FL 33101"
    <<"L","1"," ","A","C","M","E"," ","L","L","C"," ","I","D","O","M","P",
      " ","M","I","A","M","I"," ","F","L"," ","3","3","1","0","1"," ","T",
      "A","M","P","A"," ","F","L"," ","3","3","6","0","2"," ","0","4","0",
      "4","2","0","2","3"," ","M","G","R"," ","S","M","I","T","H"," ","J",
      "O","H","N"," ","V","P"," ","D","O","E"," ","J","A","N","E"," ","5",
      " ","E","L","M"," ","S","T"," ","M","I","A","M","I"," ","F","L"," ",
      "3","3","1","0","1">>
    >>
\* Entity name and type code
HeaderSegs == <<
    \* "ACME LLC IDOMP"
    <<"A","C","M","E"," ","L","L","C"," ","I","D","O","M","P">>,
    \* "ACME"
    <<"A","C","M","E">>
    >>
\* Principal and mailing address
AddressSegs == <<
    \* ""
    <<>>,
    \* "MIAMI FL 33101"
    <<"M","I","A","M","I"," ","F","L"," ","3","3","1","0","1">>,
    \* "100 MAIN ST STE 2 MIAMI FL33101 US 5 ELM ST TAMPA FL 33602-0001"
    <<"1","0","0"," ","M","A","I","N"," ","S","T"," ","S","T","E"," ","2",
      " ","M","I","A","M","I"," ","F","L","3","3","1","0","1"," ","U","S",
      " ","5"," ","E","L","M"," ","S","T"," ","T","A","M","P","A"," ","F",
      "L"," ","3","3","6","0","2","-","0","0","0","1">>
    >>
\* Filing facts
FactSegs == <<
    \* ""
    <<>>,
    \* "04042023 92-1234567 N FL2025 04042024"
    <<"0","4","0","4","2","0","2","3"," ","9","2","-","1","2","3","4","5",
      "6","7"," ","N"," ","F","L","2","0","2","5"," ","0","4","0","4","2",
      "0","2","4">>
    >>
\* Registered agent, in both formats
AgentSegs == <<
    \* ""
    <<>>,
    \* "SMITH JOHN C123 MAIN ST MIAMI FL 33101"
    <<"S","M","I","T","H"," ","J","O","H","N"," ","C","1","2","3"," ","M",
      "A","I","N"," ","S","T"," ","M","I","A","M","I"," ","F","L"," ","3",
      "3","1","0","1">>,
    \* "DOE JANE P 5 ELM ST MIAMI FL 33101"
    <<"D","O","E"," ","J","A","N","E"," ","P"," ","5"," ","E","L","M"," ",
      "S","T"," ","M","I","A","M","I"," ","F","L"," ","3","3","1","0","1">>,
    \* "LAW GROUP C77"
    <<"L","A","W"," ","G","R","O","U","P"," ","C","7","7">>,
    \* "DOE JANE 04042023P5 ELM ST MIAMI FL 33101"
    <<"D","O","E"," ","J","A","N","E"," ","0","4","0","4","2","0","2","3",
      "P","5"," ","E","L","M"," ","S","T"," ","M","I","A","M","I"," ","F",
      "L"," ","3","3","1","0","1">>
    >>
\* Officer blocks
OfficerSegs == <<
    \* "MGR"
    <<"M","G","R">>,
    \* "VP P"
    <<"V","P"," ","P">>,
    \* "MGR SMITH JOHN 5 ELM ST MIAMI FL 33101"
    <<"M","G","R"," ","S","M","I","T","H"," ","J","O","H","N"," ","5"," ",
      "E","L","M"," ","S","T"," ","M","I","A","M","I"," ","F","L"," ","3",
      "3","1","0","1">>
    >>

\* Bounds of the generated inputs
MaxOfficers == 2

\* The concatenation of the non-empty pieces, separated by single spaces
JoinSp(pieces) == Join(SelectSeq(pieces, LAMBDA x : x # <<>>))

\* All sequences over 1..n of length at most m
RECURSIVE SeqsUpTo(_,_)
SeqsUpTo(n, m) ==
    IF m = 0 THEN {<<>>}
    ELSE LET shorter == SeqsUpTo(n, m - 1)
         IN  shorter \cup {Append(sq, x) : sq \in shorter, x \in 1..n}

OfficerText(blocks) == JoinSp([k \in 1..Len(blocks) |-> OfficerSegs[blocks[k]]])

\* The document number every generated line starts with
GenDoc == DocChoices[1]

GeneratedInputs ==
    {[doc |-> GenDoc,
      line |-> JoinSp(<<GenDoc, HeaderSegs[h], AddressSegs[a],
                        FactSegs[f], AgentSegs[g], OfficerText(o)>>)] :
        h \in DOMAIN HeaderSegs,
        a \in DOMAIN AddressSegs, f \in DOMAIN FactSegs,
        g \in DOMAIN AgentSegs,
        o \in SeqsUpTo(Len(OfficerSegs), MaxOfficers)}

SpecialInputs ==
    {[doc |-> DocChoices[d], line |-> SpecialLines[l]] :
        d \in DOMAIN DocChoices, l \in DOMAIN SpecialLines}

\* A line whose only state+zip anchor follows n filler tokens
Filler(n) == [k \in 1..(2 * n) |-> IF k % 2 = 1 THEN " " ELSE "X"]
PaddedLine(head, n) ==
    head \o Filler(n) \o <<" ","F","L"," ","3","3","1","0","1"," ","M","G","R">>
PaddedInputs ==
    {[doc |-> <<>>, line |-> PaddedLine(h, n)] :
        h \in {<<"I","D","O","M","P">>, <<"X">>}, n \in {Window - 1, Window}}

Inputs == GeneratedInputs \cup SpecialInputs \cup PaddedInputs
          \cup {[doc |-> ScenarioDoc, line |-> ScenarioLine]}

\* Iteration orders of the set TYPE_TOKENS
TypeOrderA == << <<"I","F","L","A","L">>, <<"A","F","L","A","L">>,
                 <<"I","D","O","M","N","P">>, <<"I","D","O","M","N">>,
                 <<"I","D","O","M","P">>, <<"I","D","O","M">>,
                 <<"D","O","M","N","P">>, <<"D","O","M","P">> >>
Reverse(sq) == [k \in 1..Len(sq) |-> sq[Len(sq) + 1 - k]]
TypeOrders == {TypeOrderA, Reverse(TypeOrderA)}

----------------------------------------------------------------------------
(* parse_corp_line as a function, for its callers *)

\* A mailing-address extraction that starts over from the first token
MailingStartOver(principal_addr, next_idx) == 0

\* idx if principal else 0
MailingStart(principal_addr, next_idx) ==
    IF principal_addr # Null THEN next_idx ELSE 0

\* The first index from k on that holds a role code, -1 when there is none:
\* where the loop "while i < len(tokens)" next enters an officer block
NextRole(t, k) ==
    FirstOf({h + 1 : h \in {g \in k..(Len(t) - 1) : Tok(t, g) \in ROLE_TOKENS}})

\* The officers found from cursor k on, appended to acc
RECURSIVE OfficerLoop(_,_,_)
OfficersAfter(t, ob, acc) == OfficerLoop(t, ob.i, Append(acc, ob.officer))
OfficersFrom(t, r, acc) ==
    IF r = -1 THEN acc ELSE OfficersAfter(t, OfficerBlock(t, r), acc)
OfficerLoop(t, k, acc) == OfficersFrom(t, NextRole(t, k), acc)

ParseOfficers(loc) ==
    [document_number |-> loc.doc_clean,
     entity_name |-> loc.h.entity_name,
     entity_type_code |-> loc.h.entity_type_code,
     principal_address |-> loc.pr.addr,
     mailing_address |-> loc.ml.addr,
     formation_date |-> loc.fd.formation_date,
     fei_ein |-> loc.ff.fei_ein,
     annual_report_year |-> loc.ff.annual_report_year,
     report_dates |-> loc.ff.report_dates,
     registered_agent |-> loc.ra.registered_agent,
     officers |-> OfficerLoop(loc.tokens, loc.ra.j, <<>>),
     raw_line |-> loc.raw]
ParseAgent(loc) ==
    ParseOfficers(loc @@ [ra |-> RegisteredAgent(loc.tokens, loc.ff.j)])
ParseFacts(loc) ==
    ParseAgent(loc @@ [ff |-> FilingFacts(loc.tokens, loc.fd.j)])
ParseFormation(loc) ==
    ParseFacts(loc @@ [fd |-> FormationDate(loc.tokens, loc.ml.next)])
ParseMailing(loc) ==
    ParseFormation(loc @@ [ml |-> _parse_address(loc.tokens,
                               MailingStart(loc.pr.addr, loc.pr.next))])
ParsePrincipal(loc) ==
    ParseMailing(loc @@ [pr |-> _parse_address(loc.tokens, 0)])
ParseTokens(loc) ==
    ParsePrincipal(loc @@ [tokens |-> _tokenize(loc.h.remainder)])
ParseHeader(loc, order) ==
    ParseTokens(loc @@ [h |-> SplitHeader(StripDoc(loc.raw, loc.doc_clean), order)])

\* parse_corp_line(doc, corp_line), TYPE_TOKENS being visited in order
parse_corp_line(d, line, order) ==
    ParseHeader([raw |-> _normalize_ws(line), doc_clean |-> _clean(d)], order)


----------------------------------------------------------------------------
(* parse_corp_line as a state machine *)

\* The locals of parse_corp_line before its first statement
ParseLocals ==
    /\ raw = <<>> /\ doc_clean = <<>>
    /\ entity_name = <<>> /\ entity_type_code = Null
    /\ tokens = <<>>
    /\ principal = Null /\ mailing = Null /\ idx = 0
    /\ formation_date = Null /\ fei_ein = Null /\ annual_report_year = Null
    /\ report_dates = <<>> /\ j = 0
    /\ registered_agent = Null
    /\ officers = <<>> /\ i = 0
    /\ record = Null
    /\ raised = FALSE
    /\ trail = <<>>

\* No search is in progress
SearchIdle ==
    /\ corpdata = {} /\ q = <<>> /\ limit = 0
    /\ rows = <<>> /\ out = <<>> /\ results = Null

\* No lookup is in progress
LookupIdle ==
    /\ corp = {} /\ path_doc = <<>> /\ con = "none"
    /\ found_row = Null /\ data = Null /\ response = Null /\ error = Null

Init ==
    /\ \E inp \in Inputs : doc = inp.doc /\ corp_line = inp.line
    /\ pc = "start"
    /\ ParseLocals
    /\ SearchIdle
    /\ LookupIdle

Step(name, cin, cout, isnull) ==
    [step |-> name, cin |-> cin, cout |-> cout, null |-> isnull]

\* raw = _normalize_ws(corp_line); doc_clean = _clean(doc)
Normalize ==
    /\ pc = "start"
    /\ raw' = _normalize_ws(corp_line)
    /\ doc_clean' = _clean(doc)
    /\ pc' = "header"
    /\ UNCHANGED <<svars, dvars>>
    /\ UNCHANGED <<doc, corp_line, entity_name, entity_type_code, tokens,
                   principal, mailing, idx, formation_date, fei_ein,
                   annual_report_year, report_dates, j, registered_agent,
                   officers, i, record, raised, trail>>

\* Document-number prefix, entity name + type token, tokens; the loop over
\* the set TYPE_TOKENS visits it in an order the run time chooses
Header ==
    /\ pc = "header"
    /\ \E order \in TypeOrders :
         \E h \in {SplitHeader(StripDoc(raw, doc_clean), order)} :
             /\ entity_name' = h.entity_name
             /\ entity_type_code' = h.entity_type_code
             /\ tokens' = _tokenize(h.remainder)
    /\ pc' = "principal"
    /\ UNCHANGED <<svars, dvars>>
    /\ UNCHANGED <<doc, corp_line, raw, doc_clean, principal, mailing, idx,
                   formation_date, fei_ein, annual_report_year, report_dates,
                   j, registered_agent, officers, i, record, raised, trail>>

\* principal, idx = _parse_address(tokens, 0)
Principal ==
    /\ pc = "principal"
    /\ \E pa \in {_parse_address(tokens, 0)} :
       \E err \in {ParseAddressRaises(tokens, 0)} :
           /\ raised' = err
           /\ principal' = IF err THEN principal ELSE pa.addr
           /\ idx' = IF err THEN idx ELSE pa.next
           /\ pc' = IF err THEN "raised" ELSE "mailing"
           /\ trail' = IF err THEN trail
                       ELSE Append(trail, Step("principal", 0, pa.next,
                                               pa.addr = Null))
    /\ UNCHANGED <<svars, dvars>>
    /\ UNCHANGED <<doc, corp_line, raw, doc_clean, entity_name,
                   entity_type_code, tokens, mailing, formation_date, fei_ein,
                   annual_report_year, report_dates, j, registered_agent,
                   officers, i, record>>

\* mailing, idx = _parse_address(tokens, idx if principal else 0)
Mailing ==
    /\ pc = "mailing"
    /\ \E start \in {MailingStart(principal, idx)} :
       \E pa \in {_parse_address(tokens, start)} :
       \E err \in {ParseAddressRaises(tokens, start)} :
           /\ raised' = err
           /\ mailing' = IF err THEN mailing ELSE pa.addr
           /\ idx' = IF err THEN idx ELSE pa.next
           /\ pc' = IF err THEN "raised" ELSE "formation"
           /\ trail' = IF err THEN trail
                       ELSE Append(trail, Step("mailing", start, pa.next,
                                               pa.addr = Null))
    /\ UNCHANGED <<svars, dvars>>
    /\ UNCHANGED <<doc, corp_line, raw, doc_clean, entity_name,
                   entity_type_code, tokens, principal, formation_date,
                   fei_ein, annual_report_year, report_dates, j,
                   registered_agent, officers, i, record>>

\* j = idx; the scan for the formation date
Formation ==
    /\ pc = "formation"
    /\ \E fd \in {FormationDate(tokens, idx)} :
           /\ formation_date' = fd.formation_date
           /\ j' = fd.j
           /\ trail' = Append(trail, Step("formation", idx, fd.j,
                                          fd.formation_date = Null))
    /\ pc' = "facts"
    /\ UNCHANGED <<svars, dvars>>
    /\ UNCHANGED <<doc, corp_line, raw, doc_clean, entity_name,
                   entity_type_code, tokens, principal, mailing, idx, fei_ein,
                   annual_report_year, report_dates, registered_agent,
                   officers, i, record, raised>>

\* FEI/EIN, flag, extra date, annual report year, report dates
Facts ==
    /\ pc = "facts"
    /\ \E ff \in {FilingFacts(tokens, j)} :
           /\ fei_ein' = ff.fei_ein
           /\ annual_report_year' = ff.annual_report_year
           /\ report_dates' = ff.report_dates
           /\ j' = ff.j
    /\ pc' = "agent"
    /\ UNCHANGED <<svars, dvars>>
    /\ UNCHANGED <<doc, corp_line, raw, doc_clean, entity_name,
                   entity_type_code, tokens, principal, mailing, idx,
                   formation_date, registered_agent, officers, i, record,
                   raised, trail>>

\* 3) registered agent; then i = j
Agent ==
    /\ pc = "agent"
    /\ \E ra \in {RegisteredAgent(tokens, j)} :
           /\ raised' = ra.raises
           /\ registered_agent' = IF ra.raises THEN registered_agent
                                  ELSE ra.registered_agent
           /\ j' = IF ra.raises THEN j ELSE ra.j
           /\ i' = IF ra.raises THEN i ELSE ra.j
           /\ pc' = IF ra.raises THEN "raised" ELSE "officers"
           /\ trail' = IF ra.raises THEN trail
                       ELSE Append(trail, Step("agent", j, ra.j,
                                               ra.registered_agent = Null)
                                          @@ [fmt |-> ra.fmt])
    /\ UNCHANGED <<svars, dvars>>
    /\ UNCHANGED <<doc, corp_line, raw, doc_clean, entity_name,
                   entity_type_code, tokens, principal, mailing, idx,
                   formation_date, fei_ein, annual_report_year, report_dates,
                   officers, record>>

\* One iteration of the loop "while i < len(tokens)"
Officer ==
    /\ pc = "officers"
    /\ i < Len(tokens)
    /\ IF Tok(tokens, i) \in ROLE_TOKENS
       THEN \E ob \in {OfficerBlock(tokens, i)} :
                /\ raised' = ob.raises
                /\ officers' = IF ob.raises THEN officers
                               ELSE Append(officers, ob.officer)
                /\ i' = IF ob.raises THEN i ELSE ob.i
                /\ pc' = IF ob.raises THEN "raised" ELSE "officers"
                /\ trail' = IF ob.raises THEN trail
                            ELSE Append(trail, Step("officer", ob.name_end, ob.i,
                                                    ob.officer.address = Null)
                                               @@ [role_at |-> i,
                                                   name_first |-> ob.name_first])
       ELSE /\ i' = i + 1
            /\ UNCHANGED <<officers, raised, pc, trail>>
    /\ UNCHANGED <<svars, dvars>>
    /\ UNCHANGED <<doc, corp_line, raw, doc_clean, entity_name,
                   entity_type_code, tokens, principal, mailing, idx,
                   formation_date, fei_ein, annual_report_year, report_dates,
                   j, registered_agent, record>>

\* The returned dict
Composed ==
    [document_number |-> doc_clean,
     entity_name |-> entity_name,
     entity_type_code |-> entity_type_code,
     principal_address |-> principal,
     mailing_address |-> mailing,
     formation_date |-> formation_date,
     fei_ein |-> fei_ein,
     annual_report_year |-> annual_report_year,
     report_dates |-> report_dates,
     registered_agent |-> registered_agent,
     officers |-> officers,
     raw_line |-> raw]

\* The loop has ended: return the record
Return ==
    /\ pc = "officers"
    /\ i >= Len(tokens)
    /\ record' = Composed
    /\ pc' = "done"
    /\ UNCHANGED <<svars, dvars>>
    /\ UNCHANGED <<doc, corp_line, raw, doc_clean, entity_name,
                   entity_type_code, tokens, principal, mailing, idx,
                   formation_date, fei_ein, annual_report_year, report_dates,
                   j, registered_agent, officers, i, raised, trail>>

Next ==
    \/ Normalize \/ Header \/ Principal \/ Mailing \/ Formation \/ Facts
    \/ Agent \/ Officer \/ Return

Spec == Init /\ [][Next]_vars

----------------------------------------------------------------------------
(* search_entities *)

\* The characters in use, by increasing code point
CodePoints ==
    <<"\t", " ", "#", "&", ",", "-", ".", "/">> \o DigitSeq \o <<";">>
    \o UpperSeq \o <<"_">> \o LowerSeq
Ord(c) == IndexIn(CodePoints, c)

\* a < b for two str: d is the first index where they differ, -1 when one
\* is a prefix of the other
FirstDiff(a, b) == FirstOf({k \in 1..Min(Len(a), Len(b)) : a[k] # b[k]})
StrLessAt(a, b, d) ==
    IF d = -1 THEN Len(a) < Len(b) ELSE Ord(Tok(a, d)) < Ord(Tok(b, d))
StrLess(a, b) == StrLessAt(a, b, FirstDiff(a, b))

\* x < y for two tuples (int, int, str)
KeyLess(x, y) ==
    \/ x[1] < y[1]
    \/ x[1] = y[1] /\ x[2] < y[2]
    \/ x[1] = y[1] /\ x[2] = y[2] /\ StrLess(x[3], y[3])

\* s LIKE '%' || sub || '%', for a sub without the wildcards % and _
Contains(s, sub) ==
    \E k \in 0..(Len(s) - Len(sub)) : SubSeq(s, k + 1, k + Len(sub)) = sub

\* The WHERE clause of the query
Like(row, query) ==
    \/ Contains(StrLower(row.corp_line), StrLower(query))
    \/ Contains(StrLower(row.document_number), StrLower(query))
Matching(table, query) == {row \in table : Like(row, query)}

\* The sequences of n distinct members of S: what SELECT ... LIMIT n may
\* return, the query having no ORDER BY
RECURSIVE Orderings(_,_)
Orderings(S, n) ==
    IF n = 0 THEN {<<>>}
    ELSE UNION {{Append(sq, x) : x \in S \ Range(sq)} : sq \in Orderings(S, n - 1)}
Fetched(matching, n) == Orderings(matching, Min(n, Cardinality(matching)))

\* max(1, min(int(limit or 10), 50)); None is 0 here
ClampLimit(n) == Max(1, Min(IF n = 0 THEN 10 ELSE n, 50))

\* The dict appended to out for the parsed row p
Summary(p) ==
    [document_number |-> p.document_number,
     entity_name |-> p.entity_name,
     entity_type_code |-> p.entity_type_code,
     principal_city |-> IF p.principal_address = Null THEN Null
                        ELSE [s |-> p.principal_address.city],
     principal_state |-> IF p.principal_address = Null THEN Null
                         ELSE [s |-> p.principal_address.state]]

\* _rank(item), q_up being q.upper()
_rank(item, q_up) ==
    <<IF StrUpper(item.document_number) = q_up THEN 0 ELSE 1,
      IF StartsWith(StrUpper(item.entity_name), q_up) THEN 0 ELSE 1,
      StrUpper(item.entity_name)>>

\* list.sort(key=...): stable, ascending.  keys[k] is the key of items[k];
\* SortedPos is the 1-based place of items[k] after the sort.
SortedPos(keys, k) ==
    Cardinality({m \in DOMAIN keys : KeyLess(keys[m], keys[k])})
    + Cardinality({m \in 1..k : keys[m] = keys[k]})
SortedBy(items, keys) ==
    [p \in 1..Len(items) |->
        items[CHOOSE k \in DOMAIN items : SortedPos(keys, k) = p]]
SortByRank(items, q_up) ==
    SortedBy(items, [k \in 1..Len(items) |-> _rank(items[k], q_up)])

\* Rows the view may hold
RowPool == {
    \* ("L100", "L100 L200 HOLDINGS LLC IDOMP MIAMI FL 33101")
    [document_number |-> <<"L","1","0","0">>,
     corp_line |-> <<"L","1","0","0"," ","L","2","0","0"," ","H","O","L","D","I","N","G",
                   "S"," ","L","L","C"," ","I","D","O","M","P"," ","M","I","A","M","I",
                   " ","F","L"," ","3","3","1","0","1">>],
    \* ("L200", "L200 ZENITH LLC IDOMP TAMPA FL 33602")
    [document_number |-> <<"L","2","0","0">>,
     corp_line |-> <<"L","2","0","0"," ","Z","E","N","I","T","H"," ","L","L","C"," ","I",
                   "D","O","M","P"," ","T","A","M","P","A"," ","F","L"," ","3","3","6",
                   "0","2">>],
    \* ("l300", "l300 Acme Corp")
    [document_number |-> <<"l","3","0","0">>,
     corp_line |-> <<"l","3","0","0"," ","A","c","m","e"," ","C","o","r","p">>],
    \* ("L400", "L400 ACME L200 INC DOMP")
    [document_number |-> <<"L","4","0","0">>,
     corp_line |-> <<"L","4","0","0"," ","A","C","M","E"," ","L","2","0","0"," ","I","N",
                   "C"," ","D","O","M","P">>]
    }
\* Queries
Queries == {
    \* "L200"
    <<"L","2","0","0">>,
    \* "l200"
    <<"l","2","0","0">>,
    \* " acme "
    <<" ","a","c","m","e"," ">>,
    \* ""
    <<>>,
    \* "ZZZ"
    <<"Z","Z","Z">>
    }
\* Values of the argument limit: below, inside and above 1..50, and unset
Limits == {-1, 0, 1, 2, 3, 50, 60}

InitSearch ==
    /\ pc = "search"
    /\ corpdata \in SUBSET RowPool
    /\ q \in Queries
    /\ limit \in Limits
    /\ rows = <<>> /\ out = <<>> /\ results = Null
    /\ doc = <<>> /\ corp_line = <<>>
    /\ ParseLocals
    /\ LookupIdle

\* q = _clean(q); limit = max(1, min(int(limit or 10), 50))
Clamp ==
    /\ pc = "search"
    /\ q' = _clean(q)
    /\ limit' = ClampLimit(limit)
    /\ pc' = "fetch"
    /\ UNCHANGED <<corpdata, rows, out, results>>
    /\ UNCHANGED <<pvars, dvars>>

\* rows = con.execute(...).fetchall()
Fetch ==
    /\ pc = "fetch"
    /\ rows' \in Fetched(Matching(corpdata, q), limit)
    /\ pc' = "rows"
    /\ UNCHANGED <<corpdata, q, limit, out, results>>
    /\ UNCHANGED <<pvars, dvars>>

\* One iteration of "for d, l in rows"
Summarize ==
    /\ pc = "rows"
    /\ Len(out) < Len(rows)
    /\ \E order \in TypeOrders :
       \E row \in {rows[Len(out) + 1]} :
           out' = Append(out, Summary(parse_corp_line(row.document_number,
                                                      row.corp_line, order)))
    /\ UNCHANGED <<pc, corpdata, q, limit, rows, results>>
    /\ UNCHANGED <<pvars, dvars>>

\* out.sort(key=_rank)
Sort ==
    /\ pc = "rows"
    /\ Len(out) = Len(rows)
    /\ out' = SortByRank(out, StrUpper(q))
    /\ pc' = "slice"
    /\ UNCHANGED <<corpdata, q, limit, rows, results>>
    /\ UNCHANGED <<pvars, dvars>>

\* return out[:limit]
ReturnOut ==
    /\ pc = "slice"
    /\ results' = Slice(out, 0, limit)
    /\ pc' = "returned"
    /\ UNCHANGED <<corpdata, q, limit, rows, out>>
    /\ UNCHANGED <<pvars, dvars>>

NextSearch == Clamp \/ Fetch \/ Summarize \/ Sort \/ ReturnOut

SpecSearch == InitSearch /\ [][NextSearch]_vars

----------------------------------------------------------------------------
(* api.py: the flat lookup by_doc *)

_SUFFIXES == {
    <<"L","L","C">>,
    <<"L",".","L",".","C">>,
    <<"I","N","C">>,
    <<"I",".","N",".","C">>,
    <<"C","O","R","P">>,
    <<"C",".","O",".","R",".","P">>,
    <<"C","O","R","P","O","R","A","T","I","O","N">>,
    <<"C","O">>,
    <<"C",".","O">>,
    <<"C","O","M","P","A","N","Y">>,
    <<"L","T","D">>,
    <<"L",".","T",".","D">>,
    <<"L","I","M","I","T","E","D">>,
    <<"L","P">>,
    <<"L",".","P">>,
    <<"L","L","P">>,
    <<"L",".","L",".","P">>,
    <<"L","L","L","P">>,
    <<"L",".","L",".","L",".","P">>,
    <<"P","A">>,
    <<"P",".","A">>,
    <<"P","L","L","C">>,
    <<"P",".","L",".","L",".","C">>,
    <<"P","L">>,
    <<"P",".","L">>,
    <<"P","C">>,
    <<"P",".","C">>,
    <<"P","R","O","F","E","S","S","I","O","N","A","L">>,
    <<"A","S","S","O","C","I","A","T","I","O","N">>,
    <<"P"," ","A">> }

\* The names bound at module level in api.py
ModuleNames == {
    "FastAPI", "Query", "duckdb", "re", "DB_PATH", "app", "_SUFFIXES",
    "_punct_re", "_ws_re", "connect", "clean", "fmt_mmddyyyy", "split_zip",
    "normalize_business_name", "looks_like_doc_number", "split_person_name",
    "addr_obj", "best_address", "display_subtitle", "ra_obj", "officers_list",
    "build_prefill_payload", "by_doc", "search", "prefill_by_doc",
    "prefill_search" }

\* clean(v), v being Null or [s |-> str]
clean(v) ==
    IF v = Null THEN Null
    ELSE IF Strip(v.s) = <<>> THEN Null ELSE [s |-> Strip(v.s)]

\* _punct_re.sub(" ", s)
PunctToSpace(s) ==
    [k \in 1..Len(s) |->
        IF IsUpper(s[k]) \/ IsDigit(s[k]) \/ IsSpace(s[k]) THEN s[k] ELSE " "]

\* s.split(): the pieces between runs of whitespace
Words(s) ==
    SelectSeq(Split([k \in 1..Len(s) |-> IF IsSpace(s[k]) THEN " " ELSE s[k]]),
              LAMBDA w : w # <<>>)

\* The loop that removes the trailing suffix tokens of parts
RECURSIVE StripSuffixes(_)
StripSuffixes(parts) ==
    IF parts = <<>> THEN parts
    ELSE IF parts[Len(parts)] \in _SUFFIXES
    THEN StripSuffixes(SubSeq(parts, 1, Len(parts) - 1))
    ELSE IF /\ Len(parts) >= 2
            /\ parts[Len(parts) - 1] \o <<" ">> \o parts[Len(parts)] \in _SUFFIXES
    THEN StripSuffixes(SubSeq(parts, 1, Len(parts) - 2))
    ELSE parts

\* out if out else s
OutOrAll(o, s) == IF o # <<>> THEN [s |-> o] ELSE [s |-> s]

\* The name for the upper-cased, punctuation-free, collapsed string s
NormalizedFrom(s) ==
    IF s = <<>> THEN Null ELSE OutOrAll(Join(StripSuffixes(Words(s))), s)

\* normalize_business_name(name), name being Null or [s |-> str]
normalize_business_name(name) ==
    IF clean(name) = Null THEN Null
    ELSE NormalizedFrom(Join(Words(PunctToSpace(StrUpper(clean(name).s)))))

\* fetchone() of SELECT ... FROM corp WHERE document_number = ? LIMIT 1:
\* any one of the rows with that document number, None when there is none
FetchOne(table, d) ==
    IF \E r \in table : r.document_number = d
    THEN {r \in table : r.document_number = d} ELSE {Null}

\* Rows of the table corp: the columns by_doc reads
CorpPool == {
    [document_number |-> <<"L","1">>, name |-> [s |-> <<"A","c","m","e",","," ","L",".","L",".","C",".">>],
     file_date |-> [s |-> <<"0","4","0","4","2","0","2","3">>], last_txn_date |-> [s |-> <<"0","1","0","5","2","0","2","4">>]],
    [document_number |-> <<"L","1">>, name |-> [s |-> <<"O","T","H","E","R"," ","I","N","C">>],
     file_date |-> Null, last_txn_date |-> Null],
    [document_number |-> <<"P","2">>, name |-> Null,
     file_date |-> Null, last_txn_date |-> [s |-> <<"2","0","2","3">>]],
    [document_number |-> <<"N","3">>, name |-> [s |-> <<" "," ","l","l","c"," ">>],
     file_date |-> [s |-> <<"0","4","0","4","2","0","2","3">>], last_txn_date |-> Null],
    [document_number |-> <<"M","4">>, name |-> [s |-> <<"S","M","I","T","H"," ","&"," ","S","O","N","S"," ","P"," ","A">>],
     file_date |-> [s |-> <<"0","4","0","4"," ","2","0","2","3">>], last_txn_date |-> [s |-> <<"0","1","0","5","2","0","2","4">>]] }
PathDocs == {<<"L","1">>, <<"P","2">>, <<"N","3">>, <<"M","4">>, <<"l","1">>, <<"X","9">>}

InitByDoc ==
    /\ pc = "by_doc"
    /\ corp \in SUBSET CorpPool
    /\ path_doc \in PathDocs
    /\ con = "none"
    /\ found_row = Null /\ data = Null /\ response = Null /\ error = Null
    /\ doc = <<>> /\ corp_line = <<>>
    /\ ParseLocals
    /\ SearchIdle

\* con = connect()
Connect ==
    /\ pc = "by_doc"
    /\ con' = "open"
    /\ pc' = "execute"
    /\ UNCHANGED <<corp, path_doc, found_row, data, response, error>>
    /\ UNCHANGED <<pvars, svars>>

\* row = con.execute(..., [doc]).fetchone()
Execute ==
    /\ pc = "execute"
    /\ found_row' \in FetchOne(corp, path_doc)
    /\ pc' = "row"
    /\ UNCHANGED <<corp, path_doc, con, data, response, error>>
    /\ UNCHANGED <<pvars, svars>>

\* if not row: return {"found": False}
NotFound ==
    /\ pc = "row"
    /\ found_row = Null
    /\ response' = [found |-> FALSE]
    /\ pc' = "finally"
    /\ UNCHANGED <<corp, path_doc, con, found_row, data, error>>
    /\ UNCHANGED <<pvars, svars>>

\* data = dict(zip(cols, row)); data["name_normalized"] = ...
BuildData ==
    /\ pc = "row"
    /\ found_row # Null
    /\ data' = found_row @@
                 [name_normalized |-> normalize_business_name(clean(found_row.name))]
    /\ pc' = "format"
    /\ UNCHANGED <<corp, path_doc, con, found_row, response, error>>
    /\ UNCHANGED <<pvars, svars>>

\* data["file_date_fmt"] = fmt_yyyymmdd(...): the name is looked up among
\* the module's names when the statement runs, and a name that is not bound
\* raises NameError; the return statement is reached only past it.
FormatDates ==
    /\ pc = "format"
    /\ IF "fmt_yyyymmdd" \in ModuleNames
       THEN /\ response' = [found |-> TRUE, data |-> data]
            /\ error' = error
       ELSE /\ error' = [s |-> "NameError"]
            /\ response' = response
    /\ pc' = "finally"
    /\ UNCHANGED <<corp, path_doc, con, found_row, data>>
    /\ UNCHANGED <<pvars, svars>>

\* finally: con.close()
Close ==
    /\ pc = "finally"
    /\ con' = "closed"
    /\ pc' = "end"
    /\ UNCHANGED <<corp, path_doc, found_row, data, response, error>>
    /\ UNCHANGED <<pvars, svars>>

NextByDoc == Connect \/ Execute \/ NotFound \/ BuildData \/ FormatDates \/ Close

SpecByDoc == InitByDoc /\ [][NextByDoc]_vars

----------------------------------------------------------------------------
(* Properties *)

\* The strings of the scenario's expected record
BHMS_NAME == <<"B","H","M","S"," ","C","O","N","S","U","L","T","I","N","G"," ","L","L","C">>
IDOMP_CODE == <<"I","D","O","M","P">>
FORT_LAUDERDALE == <<"F","O","R","T"," ","L","A","U","D","E","R","D","A","L","E">>
FL_STATE == <<"F","L">>
ZIP_33304 == <<"3","3","3","0","4">>
DATE_04042023 == <<"0","4","0","4","2","0","2","3">>
EIN_92_1234567 == <<"9","2","-","1","2","3","4","5","6","7">>
YEAR_2025 == <<"2","0","2","5">>
MGR_ROLE == <<"M","G","R">>
JOHN_SMITH == <<"J","O","H","N"," ","S","M","I","T","H">>

\* parse_corp_line has returned for the scenario line
ScenarioDone == pc = "done" /\ doc = ScenarioDoc /\ corp_line = ScenarioLine

\* C1: the normalizer is idempotent: normalizing the already normalized
\* line raw = _normalize_ws(corp_line) once more gives raw again.
C1_Idempotent == pc = "header" => _normalize_ws(raw) = raw

\* C2: for the scenario line the record has entity_name "BHMS CONSULTING
\* LLC", entity_type_code "IDOMP", principal city "FORT LAUDERDALE", state
\* "FL", zip "33304", formation_date "04042023", fei_ein "92-1234567" and
\* annual_report_year "2025".
C2_ScenarioFacts ==
    ScenarioDone =>
        /\ record.entity_name = BHMS_NAME
        /\ record.entity_type_code = [s |-> IDOMP_CODE]
        /\ record.principal_address # Null
        /\ record.principal_address.city = FORT_LAUDERDALE
        /\ record.principal_address.state = FL_STATE
        /\ record.principal_address.zip = ZIP_33304
        /\ record.formation_date = [s |-> DATE_04042023]
        /\ record.fei_ein = [s |-> EIN_92_1234567]
        /\ record.annual_report_year = [s |-> YEAR_2025]

\* C3: for the scenario line the officers list holds exactly one officer,
\* with role "MGR" and name "JOHN SMITH".
C3_ScenarioOfficer ==
    ScenarioDone =>
        /\ Len(record.officers) = 1
        /\ record.officers[1].role = MGR_ROLE
        /\ record.officers[1].name = [s |-> JOHN_SMITH]

\* C4: every extraction step (principal address, mailing address,
\* formation-date scan, registered agent, officer address) whose result is
\* null hands on the cursor it received.
C4_NullKeepsCursor ==
    \A k \in DOMAIN trail : trail[k].null => trail[k].cout = trail[k].cin

\* The keys of the returned dict and of an officer
RecordKeys ==
    {"document_number", "entity_name", "entity_type_code",
     "principal_address", "mailing_address", "formation_date", "fei_ein",
     "annual_report_year", "report_dates", "registered_agent", "officers",
     "raw_line"}
OfficerKeys == {"role", "name", "address"}

\* Nothing was raised, the cursors lie within the tokens, and what was
\* returned is a record with all its keys, the officers with theirs
WellFormed ==
    /\ ~raised
    /\ pc # "raised"
    /\ {idx, j, i} \subseteq 0..Len(tokens)
    /\ pc = "done" =>
           /\ DOMAIN record = RecordKeys
           /\ \A k \in DOMAIN record.officers :
                  DOMAIN record.officers[k] = OfficerKeys

\* A step takes the function to its next statement or, inside the loop over
\* the officers, moves the cursor forward
Progress == pc' # pc \/ (pc = "officers" /\ i' > i)

\* C5: parse_corp_line is total: for every (doc, corp_line) no step raises,
\* every step brings the return nearer, and the record returned has all
\* its keys.
C5_Total == []WellFormed /\ [][Progress]_vars

\* C5 witness: a line that ends right after a role code has been parsed; its
\* last officer has neither name nor address.
C5_EndsAfterRole ==
    /\ pc = "done"
    /\ tokens # <<>>
    /\ tokens[Len(tokens)] \in ROLE_TOKENS
    /\ record.officers # <<>>
    /\ record.officers[Len(record.officers)].name = Null
    /\ record.officers[Len(record.officers)].address = Null

\* No index k with start <= k < start + 140 and k + 1 < len(t) holds a state
\* code followed by a zip
NoAnchor(t, start) ==
    ~\E k \in start..(start + 139) :
        /\ k + 1 < Len(t)
        /\ Tok(t, k) \in US_STATES
        /\ _looks_like_zip(Tok(t, k + 1))

\* The steps that are one call _parse_address(tokens, cin)
AddressSteps == {"principal", "mailing", "officer"}

\* C6: _parse_address(tokens, start) returns (None, start) whenever no
\* state+zip anchor lies within 140 tokens of start.
C6_NoAnchorNoAddress ==
    \A k \in DOMAIN trail :
        (trail[k].step \in AddressSteps /\ NoAnchor(tokens, trail[k].cin))
            => trail[k].null /\ trail[k].cout = trail[k].cin

\* C6 witness: the principal address was declined, cursor unchanged, the
\* only anchor lying just beyond the window.
C6_AnchorBeyondWindow ==
    /\ trail # <<>>
    /\ trail[1].step = "principal"
    /\ trail[1].null
    /\ trail[1].cout = trail[1].cin
    /\ Len(tokens) > 141
    /\ Tok(tokens, 140) \in US_STATES
    /\ _looks_like_zip(Tok(tokens, 141))

\* The addresses of a record: principal, mailing, agent's, officers'
AddressesOf(r) ==
    ({r.principal_address, r.mailing_address}
     \cup (IF r.registered_agent = Null THEN {}
           ELSE {r.registered_agent.address})
     \cup {r.officers[k].address : k \in DOMAIN r.officers}) \ {Null}

\* 5 digits, or 5 digits, a hyphen and 4 digits
ZipPattern(z) ==
    \/ Len(z) = 5 /\ \A k \in 1..5 : IsDigit(z[k])
    \/ /\ Len(z) = 10
       /\ z[6] = "-"
       /\ \A k \in (1..5) \cup (7..10) : IsDigit(z[k])

\* C7: every address of a returned record has a state of the 51-member
\* state/DC set and a zip of the zip pattern, and an address1 that is a
\* string, never null.
C7_AddressAnchored ==
    pc = "done" =>
        /\ Cardinality(US_STATES) = 51
        /\ \A a \in AddressesOf(record) :
               /\ a.state \in US_STATES
               /\ ZipPattern(a.zip)
               /\ a.address1 # Null
               /\ DOMAIN a.address1 = 1..Len(a.address1)

\* C7 witness: a record with all four kinds of address, one of them with a
\* 5+4 zip.
C7_AllAddresses ==
    /\ pc = "done"
    /\ record.principal_address # Null
    /\ record.mailing_address # Null
    /\ record.registered_agent # Null
    /\ record.registered_agent.address # Null
    /\ \E k \in DOMAIN record.officers : record.officers[k].address # Null
    /\ \E a \in AddressesOf(record) : Len(a.zip) = 10

\* All of s is whitespace
Blank(s) == \A k \in DOMAIN s : IsSpace(s[k])

\* C8: the record's document_number is the argument doc without its
\* surrounding whitespace, whatever else was found.
C8_DocumentNumberKept ==
    pc = "done" =>
        /\ \E a \in 0..Len(doc) : \E b \in a..Len(doc) :
               /\ record.document_number = SubSeq(doc, a + 1, b)
               /\ Blank(SubSeq(doc, 1, a))
               /\ Blank(SubSeq(doc, b + 1, Len(doc)))
        /\ record.document_number # <<>> =>
               /\ ~IsSpace(record.document_number[1])
               /\ ~IsSpace(record.document_number[Len(record.document_number)])

\* C8 witness: a padded document number was trimmed although nothing else
\* was located.
C8_TrimmedAloneFound ==
    /\ pc = "done"
    /\ doc # record.document_number
    /\ record.document_number # <<>>
    /\ record.entity_type_code = Null
    /\ record.principal_address = Null
    /\ record.mailing_address = Null
    /\ record.formation_date = Null
    /\ record.fei_ein = Null
    /\ record.annual_report_year = Null
    /\ record.registered_agent = Null
    /\ record.officers = <<>>

\* C9: raw_line of the returned record is the argument corp_line, character
\* for character.
C9_RawLineUntouched == pc = "done" => record.raw_line = corp_line

\* The triple of the ranking: 0 if the document number equals the uppercased
\* query else 1, 0 if the entity name starts with it else 1, the entity name
RankTriple(item, query) ==
    <<IF item.document_number = StrUpper(query) THEN 0 ELSE 1,
      IF StartsWith(item.entity_name, StrUpper(query)) THEN 0 ELSE 1,
      item.entity_name>>

\* The summary of a row of the view
SummaryOf(row) ==
    Summary(parse_corp_line(row.document_number, row.corp_line, TypeOrderA))

\* The candidates of a search: the summaries of the rows the query matches
Candidates == {SummaryOf(row) : row \in Matching(corpdata, q)}

\* Candidate c stands in the results before place b
Precedes(c, b) == \E a \in 1..(b - 1) : results[a] = c

\* C10: the results are sorted ascending by the triple, every candidate
\* whose document number equals the query precedes every candidate whose
\* document number does not, and there are at most limit results.
C10_Ranked ==
    pc = "returned" =>
        /\ Len(results) <= limit
        /\ \A a, b \in DOMAIN results :
               a < b => ~KeyLess(RankTriple(results[b], q),
                                 RankTriple(results[a], q))
        /\ \A c \in Candidates : \A b \in DOMAIN results :
               (/\ c.document_number = StrUpper(q)
                /\ results[b].document_number # StrUpper(q))
                   => Precedes(c, b)

\* C11: the officer loop terminates: every iteration moves the cursor
\* forward, and the loop ends with the cursor at the length of the stream.
C11_LoopAdvances ==
    /\ [][(pc = "officers" /\ pc' = "officers") => i' > i]_vars
    /\ [](pc = "done" => i = Len(tokens))

\* C11 witness: the loop has run over a stream of two or more role codes and
\* nothing else, one officer for each.
C11_OnlyRoles ==
    /\ pc = "done"
    /\ Len(tokens) - j >= 2
    /\ \A h \in j..(Len(tokens) - 1) : Tok(tokens, h) \in ROLE_TOKENS
    /\ Len(record.officers) = Len(tokens) - j
    /\ i = Len(tokens)

\* The index of the first token of an extraction step
Begin(e) == IF e.step = "officer" THEN e.role_at ELSE e.cin

\* C12: no backtracking: the cursors stay within 0..len(tokens), each
\* extractor starts at or after the place the one before it stopped, and so
\* no token is consumed by two extractors.
C12_NoBacktracking ==
    /\ {idx, j, i} \subseteq 0..Len(tokens)
    /\ pc \in {"facts", "agent", "officers", "done"} => idx <= j
    /\ pc \in {"officers", "done"} => j <= i
    /\ \A k \in DOMAIN trail :
           /\ 0 <= Begin(trail[k])
           /\ Begin(trail[k]) <= trail[k].cout
           /\ trail[k].cout <= Len(tokens)
    /\ \A k, m \in DOMAIN trail :
           k < m => trail[k].cout <= Begin(trail[m])

\* C12 witness: all five extractors have consumed tokens in one parse.
C12_AllConsumed ==
    /\ pc = "done"
    /\ {trail[k].step : k \in DOMAIN trail}
           = {"principal", "mailing", "formation", "agent", "officer"}
    /\ \A k \in DOMAIN trail : Begin(trail[k]) < trail[k].cout

\* The officer steps of the trail, in order: the m-th is that of officers[m]
OfficerSteps == SelectSeq(trail, LAMBDA e : e.step = "officer")

\* The tokens captured as the name in officer step e
Captured(e) == Slice(tokens, e.name_first, e.cin)

\* t1 alone, or t2 ... tk t1
Reordered(cap) == IF Len(cap) >= 2 THEN Tail(cap) \o <<Head(cap)>> ELSE cap

\* The name the captured tokens are to give
NameFrom(cap) == IF cap = <<>> THEN Null ELSE [s |-> Join(Reordered(cap))]

\* C13: an officer's name is a pure reordering of its captured tokens: t1
\* alone, or t2 ... tk t1 joined by single spaces, no token altered,
\* shortened or dropped.
C13_NameReordered ==
    \A m \in DOMAIN officers :
        officers[m].name = NameFrom(Captured(OfficerSteps[m]))

\* Strings of n digits
DigitRun(tok, n) == Len(tok) = n /\ \A k \in 1..n : IsDigit(tok[k])

\* A token that may not be part of an officer's name: a role code, a compact
\* agent code, a date, a year, an EIN, a FEI or a street number
NameStop(tok) ==
    \/ tok \in ROLE_TOKENS
    \/ tok # <<>> /\ Head(tok) = "C" /\ \E n \in 1..6 : DigitRun(Tail(tok), n)
    \/ DigitRun(tok, 8)
    \/ DigitRun(tok, 4)
    \/ /\ Len(tok) = 10
       /\ tok[3] = "-"
       /\ DigitRun(SubSeq(tok, 1, 2), 2)
       /\ DigitRun(SubSeq(tok, 4, 10), 7)
    \/ DigitRun(tok, 9)
    \/ \E n \in 1..6 : DigitRun(tok, n)

\* Officer step e and its officer o agree with the capture rule
CaptureRule(e, o) ==
    /\ o.role = Tok(tokens, e.role_at)
    /\ o.role \in ROLE_TOKENS
    /\ e.name_first \in {e.role_at + 1, e.role_at + 2}
    /\ e.name_first = e.role_at + 2 => Tok(tokens, e.role_at + 1) = <<"P">>
    /\ e.cin - e.name_first \in 0..14
    /\ \A h \in e.name_first..(e.cin - 1) : ~NameStop(Tok(tokens, h))
    /\ \/ e.cin = Len(tokens)
       \/ e.cin - e.name_first = 14
       \/ NameStop(Tok(tokens, e.cin))
    /\ (o.name = Null) = (e.cin = e.name_first)

\* C14: every officer has a role of the role-code set and a name built from
\* at most 14 consecutive tokens, none of them a role code, compact code,
\* date, year, EIN, FEI or street number; capture stops at the first such
\* token, which stays unread.
C14_NameCapture ==
    \A m \in DOMAIN officers : CaptureRule(OfficerSteps[m], officers[m])

\* C14 witness: a returned officer whose name took 14 tokens and stopped
\* there, before a token that is no stop token.
C14_CapReached ==
    /\ pc = "done"
    /\ \E m \in DOMAIN officers :
           /\ OfficerSteps[m].cin - OfficerSteps[m].name_first = 14
           /\ OfficerSteps[m].cin < Len(tokens)
           /\ ~NameStop(Tok(tokens, OfficerSteps[m].cin))
           /\ officers[m].name # Null

\* The registered-agent steps of the trail (at most one)
AgentSteps == SelectSeq(trail, LAMBDA e : e.step = "agent")

\* "C" and 1 to 6 digits
CompactCode(tok) ==
    tok # <<>> /\ Head(tok) = "C" /\ \E n \in 1..6 : DigitRun(Tail(tok), n)

\* The positions from lo on of a compact code
CompactFrom(lo) == {h \in lo..(Len(tokens) - 1) : CompactCode(Tok(tokens, h))}

\* The positions of a standalone "P" within 160 tokens of lo
MarkersFrom(lo) ==
    {h \in lo..(lo + 159) : h < Len(tokens) /\ Tok(tokens, h) = <<"P">>}

\* Agent step e took the format the rule gives it
FormatRule(e) ==
    /\ (e.fmt = "A") = (CompactFrom(e.cin) # {})
    /\ (e.fmt = "B") = (CompactFrom(e.cin) = {} /\ MarkersFrom(e.cin) # {})
    /\ (e.fmt = "none") = (CompactFrom(e.cin) = {} /\ MarkersFrom(e.cin) = {})
    /\ e.fmt = "none" => registered_agent = Null /\ e.cout = e.cin
    /\ (e.fmt = "B" /\ NoAnchor(tokens, SetMin(MarkersFrom(e.cin)) + 1))
           => registered_agent = Null /\ e.cout = e.cin
    /\ (e.fmt = "B" /\ ~NoAnchor(tokens, SetMin(MarkersFrom(e.cin)) + 1))
           => registered_agent # Null /\ e.cout > e.cin

\* C15: format A comes first and format B is tried only when no compact code
\* lies anywhere from the cursor to the end of the stream; when format B
\* finds its marker but no address after it, registered_agent is null and the
\* officer scan starts at the cursor the agent step started at.
C15_AgentFormats ==
    /\ Len(AgentSteps) <= 1
    /\ \A k \in DOMAIN AgentSteps : FormatRule(AgentSteps[k])
    /\ \A k \in DOMAIN AgentSteps : j = AgentSteps[k].cout /\ j <= i

\* C15 witness: a returned record whose format B attempt found the marker
\* and no address, the officer scan then reading the marker itself as a
\* role.
C15_MarkerNoAddress ==
    /\ pc = "done"
    /\ Len(AgentSteps) = 1
    /\ AgentSteps[1].fmt = "B"
    /\ MarkersFrom(AgentSteps[1].cin) # {}
    /\ AgentSteps[1].cout = AgentSteps[1].cin
    /\ record.registered_agent = Null
    /\ Len(record.officers) = 2
    /\ record.officers[1].role = <<"P">>
    /\ record.officers[2].name # Null

\* C16: a registered agent that is not null has a name that is a non-empty
\* string; only its address may be missing.
C16_AgentNamed ==
    (pc = "done" /\ record.registered_agent # Null)
        => /\ record.registered_agent.name # Null
           /\ record.registered_agent.name.s # <<>>

\* The token is a continuation keyword, commas and case aside
IsKeyword(tok) == StripCommas(StrUpper(tok)) \in ADDR2_KEYWORDS
IsFloor(tok) ==
    StripCommas(StrUpper(tok)) \in {<<"F","L","O","O","R">>, <<"F","L">>}

\* The positions (0-based) of the continuation keywords of street
KeywordsOf(street) == {k \in 0..(Len(street) - 1) : IsKeyword(Tok(street, k))}

\* The split for the first keyword at position first: one earlier for
\* FLOOR/FL
SplitPoint(street, first) ==
    IF IsFloor(Tok(street, first)) /\ first > 0 THEN first - 1 ELSE first

\* address1 and address2 of street split at position sp
SplitBy(street, sp) ==
    [address1 |-> Join(Slice(street, 0, sp)),
     address2 |-> [s |-> Join(Slice(street, sp, Len(street)))]]

\* The two lines the split rule gives street
SplitRule(street) ==
    IF KeywordsOf(street) = {}
    THEN [address1 |-> Join(street), address2 |-> Null]
    ELSE SplitBy(street, SplitPoint(street, SetMin(KeywordsOf(street))))

\* The position of the first state+zip anchor of the stream
FirstAnchor ==
    SetMin({k \in 0..(Len(tokens) - 2) :
               Tok(tokens, k) \in US_STATES /\ ZipPattern(Tok(tokens, k + 1))})

\* The street tokens of the principal address: those before the anchor
\* that the city did not claim
PrincipalStreet ==
    Slice(tokens, 0, FirstAnchor - Len(Words(record.principal_address.city)))

\* address1 and address2 of address a are those of lines
SameLines(a, lines) ==
    a.address1 = lines.address1 /\ a.address2 = lines.address2

\* C17: the street tokens of an address are split at the first continuation
\* keyword, or one token earlier when that keyword is FLOOR or FL; address1
\* is what lies before the split, address2 the rest, and address2 is absent
\* exactly when the street has no continuation keyword.
C17_StreetSplit ==
    (pc = "done" /\ record.principal_address # Null)
        => /\ SameLines(record.principal_address, SplitRule(PrincipalStreet))
           /\ (record.principal_address.address2 = Null)
                  = (KeywordsOf(PrincipalStreet) = {})

\* The line the header is split from: raw without the document number
HeaderLine == StripDoc(raw, doc_clean)

\* tok stands in s at position k (1-based) as a whole word
OccursAt(s, tok, k) ==
    /\ k + Len(tok) - 1 <= Len(s)
    /\ SubSeq(s, k, k + Len(tok) - 1) = tok
    /\ k = 1 \/ ~IsWord(s[k - 1])
    /\ k + Len(tok) > Len(s) \/ ~IsWord(s[k + Len(tok)])

\* The whole-word occurrences in s of the type codes
Occurrences(s) ==
    {o \in [at : 1..Len(s), tok : TYPE_TOKENS] : OccursAt(s, o.tok, o.at)}

\* The occurrence that starts earliest
Earliest(occ) == CHOOSE o \in occ : \A u \in occ : o.at <= u.at

\* The header fields for the type code occurrence o of s
SplitAtCode(s, o) ==
    /\ entity_type_code = [s |-> o.tok]
    /\ entity_name = Strip(SubSeq(s, 1, o.at - 1))
    /\ tokens = _tokenize(SubSeq(s, o.at + Len(o.tok), Len(s)))

\* The header fields of a line s with no type code
SplitAtName(s) ==
    /\ entity_type_code = Null
    /\ entity_name = Strip(SubSeq(s, 1, Min(80, Len(s))))
    /\ entity_name = SubSeq(s, 1, Len(entity_name))
    /\ tokens = _tokenize(SubSeq(s, Len(entity_name) + 1, Len(s)))

HeaderRule(s, occ) ==
    IF occ # {} THEN SplitAtCode(s, Earliest(occ)) ELSE SplitAtName(s)

RolesWithin(a, b) == {h \in a..(b - 1) : Tok(tokens, h) \in ROLE_TOKENS}

\* C19: an officer's address is built only from tokens that lie between the
\* officer's name and the next role code: no role code, and so no later
\* officer's role, name or address, lies among the tokens the address
\* consumed.  A block with no address followed by a block with one gives two
\* officers.
C19_AddressShortOfNextRole ==
    \A m \in DOMAIN officers :
        officers[m].address # Null
            => RolesWithin(OfficerSteps[m].cin, OfficerSteps[m].cout) = {}

\* The rows of corp with the document number asked for
RowsAsked == {r \in corp : r.document_number = path_doc}

\* The response for a row: found, the row's columns, the normalized name
\* and the two formatted dates
FoundResponse(resp) ==
    /\ resp # Null
    /\ resp.found = TRUE
    /\ \E r \in RowsAsked :
           /\ \A c \in DOMAIN r : resp.data[c] = r[c]
           /\ {"name_normalized", "file_date_fmt", "last_txn_date_fmt"}
                  \subseteq DOMAIN resp.data

\* C20: by_doc ends with {found: false} when no row of corp has the document
\* number and with {found: true, data} when one has, never with an error,
\* and the connection is closed either way.
C20_TwoOutcomes ==
    pc = "end" =>
        /\ con = "closed"
        /\ error = Null
        /\ RowsAsked = {} => response = [found |-> FALSE]
        /\ RowsAsked # {} => FoundResponse(response)

====
